---- MODULE Spec2Model ----
(***************************************************************************)
(* Device session of the KnobGUI haptic controller front end.              *)
(*                                                                         *)
(* The session is the React component MiniTFDControl of                    *)
(* src/public/preload.js together with the serial IPC handlers of          *)
(* src/public/electron.js.  The component runs on one event loop: every    *)
(* action below is one task of that loop (a user command up to its first   *)
(* await, the continuation of an await, a timer callback, an IPC event)    *)
(* followed by the re-render it causes and the effects whose dependencies  *)
(* changed.                                                                *)
(*                                                                         *)
(* IPC: a request is handled by the main process when it is issued; the    *)
(* reply and the events the main process sends travel back in one FIFO     *)
(* channel (inbox) and are handled by the renderer in order.               *)
(*                                                                         *)
(* Timers carry no clock.  The grace timers and the liveness timer all     *)
(* run 2000 ms, so they fire in the order they were armed: they wait in    *)
(* one queue (timers) and only its head fires.  The 1000 ms reconnect wait *)
(* and the poll timers fire at any later task.                             *)
(*                                                                         *)
(* One handleReconnection chain is modelled (rc): a liveness timeout that  *)
(* would start a second chain while the first is in flight is outside the  *)
(* model.                                                                  *)
(*                                                                         *)
(* Spec issues a user command only when no IPC message is in flight;       *)
(* SpecWide allows one more message in flight and so holds the races of a  *)
(* new command with a reply on its way.                                    *)
(*                                                                         *)
(* SpecDecode is the session with handleSerialData applied to every line   *)
(* of DecoderLines and without reconnection or polling: it carries the     *)
(* properties of the inbound decoder.  SpecConfig starts from every        *)
(* configuration of Configs and applies sendTFDConfig: it carries the      *)
(* properties of the command encoder; wire is the sequence of lines the    *)
(* main process wrote to the open port.  SpecCommands adds reset and       *)
(* calibrate to it; SpecUpdate is the session with its configuration       *)
(* controls (updateState and the configuration effect of the next render). *)
(* SpecCommands also holds the two data requests (requestCurrent).         *)
(* SpecReconnect is the session with two ports to connect to.  SpecPoll is *)
(* the session with a change of the poll interval; the 300 ms timer that   *)
(* starts the interval fires once it is armed (weak fairness of            *)
(* StartPolling).                                                          *)
(*                                                                         *)
(* SpecAuto is the session with handleAutoConnect: availablePorts is the   *)
(* port list of the last scan, lastProductId the product id kept in        *)
(* localStorage, auto the position of the handleAutoConnect in flight      *)
(* (ports: the availablePorts of the render it was called in, port: the    *)
(* path it passed to connect()).                                           *)
(*                                                                         *)
(* src/components/mini-tfd-control.tsx holds an older copy of the same     *)
(* component (no grace period, no reconnection, prefix classification of   *)
(* inbound lines, `get angle` poller with two delayed follow-up requests,  *)
(* encoder without endstopMode, latch and the sticky line).  The actions   *)
(* and operators whose name ends in Tsx are that copy; SpecTsx,            *)
(* SpecTsxConfig and SpecAutoTsx are its session, its encoder and its      *)
(* handleAutoConnect.                                                      *)
(*                                                                         *)
(* SpecHaptic is the class HapticSerialInterface of src/unnamed/part_002   *)
(* over the electronSerial singleton of src/lib/electron-serial.ts: haptic *)
(* holds its connected flag, the keys of its responseCallbacks map and its *)
(* sendCommandWithResponse calls.  Its timeouts fire at any later task.    *)
(***************************************************************************)
EXTENDS Integers, Sequences, FiniteSets

\* ------------------------------------------------------------------ bounds
\* C2_OncePerFlag, C6_DisconnectOnSuccess and C8_Idempotent hold under Spec
\* with these values (293,038 states), with each raised by one (3,398,969
\* states at 2, 2, 4) and at 2, 3, 5 (12,136,557 states).
\* C13_EndstopsTwoLines holds under SpecConfig (147,024 states; 3,154,920
\* with each bound raised by one); C17_CombinedDecoded and C18_OkIsHeartbeat
\* hold under SpecDecode (4,470 states; 49,111 with each bound raised).
\* C21_EndstopAngles holds under SpecUpdate (20,592 states; 149,616 with
\* each bound raised by one); C25_WriteFailureAborts and
\* C37_NotConnectedNoWrite under SpecCommands (6,032 states; 196,608 with
\* each bound raised by one); C35_PollerRestarts under SpecPoll (425 states;
\* 4,656 with each bound raised by one).  SpecHaptic has 338 states.
MaxGrace == 1        \* connect() is called with fewer grace timers pending
MaxInbox == 1        \* a user command is issued with fewer IPC messages in flight
MaxAttempts == 3     \* cap of the reconnectAttempts counter
MaxFollowUps == 2    \* a poll tick is taken while its two follow-ups fit
MaxWire == 2         \* sendTFDConfig is called while its two lines fit in wire
MaxWritten == 0      \* a configuration control of a connected session is used
                     \* with no more lines written or owed
MaxCalls == 2        \* sendCommandWithResponse calls of one HapticSerialInterface

\* ------------------------------------------------------- program constants
MaxReconnect == 3

Ports == {"COM3"}
NoError == "null"
\* the error of a command issued in a session that is not connected
NotConnected_Cleared == NoError
NotConnected == "Not connected to device"

\* -------------------------------------------------------------- inbound lines
\* A line is a sequence of tokens.  Keys, separators and values are tokens.
LineCombined == <<"ANGLE:", "1", ",", "VEL:", "2", ",", "TORQUE:", "3">>
LineOk == <<"OK">>
LineVel == <<"VEL:", "2">>
LineJunk == <<"hello">>
LineNoComma == <<"ANGLE:", "1", "VEL:", "2", "TORQUE:", "3">>

Lines == {LineCombined, LineOk, LineVel, LineJunk, LineNoComma}

\* further lines for the decoder alone
LineExample == <<"ANGLE:", "12.50", ",", "VEL:", "-3.20", ",", "TORQUE:", "0.75">>
LineAngle == <<"ANGLE:", "3">>
LineTorque == <<"TORQUE:", "0.75">>
LineVelAbc == <<"VEL:", "abc">>
LineBadVel == <<"ANGLE:", "1", ",", "VEL:", "abc", ",", "TORQUE:", "3">>
LineDashes == <<"ANGLE:", "-", ",", "VEL:", "..", ",", "TORQUE:", "2">>
LineDots == <<"ANGLE:", "1", ",", "VEL:", "1.2.3", ",", "TORQUE:", "3">>

DecoderLines ==
  Lines \cup {LineExample, LineAngle, LineTorque, LineVelAbc, LineBadVel,
              LineDashes, LineDots}

NaN == "NaN"

\* tokens made only of the characters of the class [-\d.]
NumCharTokens == {"1", "2", "3", "12.50", "-3.20", "0.75", "1.2.3", "-", ".."}

parseFloat_Verbatim(tok) == IF tok \in {"-", "..", "abc"} THEN "NaN" ELSE tok

\* parseFloat of a token: the number its longest numeric prefix denotes,
\* NaN if it has none.  Numbers are written as their shortest decimal numeral.
parseFloat(tok) ==
  CASE tok = "1" -> "1"
    [] tok = "2" -> "2"
    [] tok = "3" -> "3"
    [] tok = "12.50" -> "12.5"
    [] tok = "-3.20" -> "-3.2"
    [] tok = "0.75" -> "0.75"
    [] tok = "1.2.3" -> "1.2"
    [] OTHER -> NaN

startsWith(line, key) == Len(line) > 0 /\ line[1] = key

includes(line, key) == \E i \in 1..Len(line) : line[i] = key

RECURSIVE split(_)
split(line) ==
  IF \A i \in 1..Len(line) : line[i] # ","
  THEN <<line>>
  ELSE LET k == CHOOSE i \in 1..Len(line) :
                   line[i] = "," /\ \A j \in 1..(i - 1) : line[j] # ","
       IN <<SubSeq(line, 1, k - 1)>> \o split(SubSeq(line, k + 1, Len(line)))

\* part.match(/KEY([-\d.]+)/): the captured group, or "null"
match(part, key) ==
  LET hits == {i \in 1..(Len(part) - 1) : part[i] = key /\ part[i + 1] \in NumCharTokens}
  IN IF hits = {} THEN "null"
     ELSE part[(CHOOSE i \in hits : \A j \in hits : i <= j) + 1]

isSensorData(line) ==
  startsWith(line, "ANGLE:") /\ includes(line, "VEL:") /\ includes(line, "TORQUE:")

isCommandResponse_Never(line) == FALSE
isCommandResponse(line) == line = LineOk

\* the try block of handleSerialData: the telemetry after the line
parseSensorData(st, line) ==
  LET parts == split(line)
  IN IF Len(parts) < 3
     THEN st      \* parts[1] or parts[2] is undefined: match throws, caught
     ELSE LET a == match(parts[1], "ANGLE:")
              v == match(parts[2], "VEL:")
              t == match(parts[3], "TORQUE:")
              s1 == IF a # "null" /\ parseFloat(a) # NaN
                    THEN [st EXCEPT !.currentAngle = parseFloat(a)] ELSE st
              s2 == IF v # "null" /\ parseFloat(v) # NaN
                    THEN [s1 EXCEPT !.currentVelocity = parseFloat(v)] ELSE s1
              s3 == IF t # "null" /\ parseFloat(t) # NaN
                    THEN [s2 EXCEPT !.currentTorque = parseFloat(t)] ELSE s2
          IN s3

angleParsed(line) ==
  LET parts == split(line)
  IN /\ Len(parts) >= 3
     /\ match(parts[1], "ANGLE:") # "null"
     /\ parseFloat(match(parts[1], "ANGLE:")) # NaN

\* ---------------------------------------------------------- command encoder
\* A number of the configuration is an integer count of hundredths.
Modes ==
  {"none", "soft-detents", "medium-detents", "rough-detents", "clockwise",
   "counterclockwise", "increased-torque", "lock", "endstops", "center-detent",
   "proportional-control", "inertial-control", "latch"}
EndstopModes == {"none", "proportional", "soft", "medium", "rough", "center"}

\* a mode value outside HapticMode
UnknownMode == "turbo"

Digit(d) == <<"0", "1", "2", "3", "4", "5", "6", "7", "8", "9">>[d + 1]

\* the decimal numeral of a natural number
RECURSIVE ToDecimal(_)
ToDecimal(n) == IF n < 10 THEN Digit(n) ELSE ToDecimal(n \div 10) \o Digit(n % 10)

\* the hundredths ending in 5, below 4.00, whose double lies below the
\* decimal they are written as (0.35 is 0.34999999999999997...)
DoubleBelow ==
  {15, 35, 85, 95, 115, 145, 165, 195, 205, 215, 255, 265, 305, 315, 355, 365}

\* Number.prototype.toFixed(1): the tenth nearest to the double, the larger
\* one if both are as near; the sign of a negative number is kept
toFixed(x) ==
  LET a == IF x < 0 THEN -x ELSE x
      up == a % 10 > 5 \/ (a % 10 = 5 /\ a \notin DoubleBelow)
      n == (a \div 10) + (IF up THEN 1 ELSE 0)
      digits == ToDecimal(n \div 10) \o "." \o Digit(n % 10)
  IN IF x < 0 THEN "-" \o digits ELSE digits

formatTFDCommand(c) ==
  CASE c.mode = "none" -> "set normal\n"
    [] c.mode = "soft-detents" -> "set detent:ultra\n"
    [] c.mode = "medium-detents" -> "set detent:fine\n"
    [] c.mode = "rough-detents" -> "set detent:coarse\n"
    [] c.mode = "clockwise" -> "set cw\n"
    [] c.mode = "counterclockwise" -> "set ccw\n"
    [] c.mode = "increased-torque" -> "set constant:" \o toFixed(c.torque) \o "\n"
    [] c.mode = "lock" -> "set constant:1.0\n"
    [] c.mode = "endstops" ->
         CASE c.endstopMode = "proportional" ->
                "set endstops-proportional:" \o toFixed(c.endstopTurns) \o "\n"
           [] c.endstopMode = "soft" -> "set endstops-ultra:" \o toFixed(c.endstopTurns) \o "\n"
           [] c.endstopMode = "medium" -> "set endstops-fine:" \o toFixed(c.endstopTurns) \o "\n"
           [] c.endstopMode = "rough" -> "set endstops-coarse:" \o toFixed(c.endstopTurns) \o "\n"
           [] c.endstopMode = "center" -> "set endstops-center:" \o toFixed(c.endstopTurns) \o "\n"
           [] OTHER -> "set endstops:" \o toFixed(c.endstopTurns) \o "\n"
    [] c.mode = "center-detent" -> "set detent:center\n"
    [] c.mode = "proportional-control" ->
         "set proportional:" \o toFixed(c.targetAngle) \o "," \o toFixed(c.stiffness) \o "\n"
    [] c.mode = "inertial-control" -> "set inertial:" \o toFixed(c.stiffness) \o "\n"
    [] c.mode = "latch" -> "set latch\n"
    [] OTHER -> "set normal\n"

\* the second line of sendTFDConfig
stickyCommand_Inverted(c) == "set sticky:" \o (IF c.isSticky THEN "off" ELSE "on") \o "\n"
stickyCommand(c) == "set sticky:" \o (IF c.isSticky THEN "on" ELSE "off") \o "\n"

\* formatTFDCommand of src/components/mini-tfd-control.tsx
formatTFDCommandTsx(c) ==
  CASE c.mode = "none" -> "set normal\n"
    [] c.mode = "soft-detents" -> "set detent:ultra\n"
    [] c.mode = "medium-detents" -> "set detent:fine\n"
    [] c.mode = "rough-detents" -> "set detent:coarse\n"
    [] c.mode = "clockwise" -> "set cw\n"
    [] c.mode = "counterclockwise" -> "set ccw\n"
    [] c.mode = "increased-torque" -> "set constant:" \o toFixed(c.torque) \o "\n"
    [] c.mode = "lock" -> "set constant:1.0\n"
    [] c.mode = "endstops" -> "set endstops:" \o toFixed(c.endstopTurns) \o "\n"
    [] c.mode = "center-detent" -> "set detent:center\n"
    [] c.mode = "proportional-control" ->
         "set proportional:" \o toFixed(c.targetAngle) \o "," \o toFixed(c.stiffness) \o "\n"
    [] c.mode = "inertial-control" -> "set inertial:" \o toFixed(c.stiffness) \o "\n"
    [] OTHER -> "set normal\n"

\* the numbers of a configuration: 0.2, 0.8, 0, 2 and 0.35, 0.05, -90, 2.5
Numbers ==
  {[torque |-> 20, stiffness |-> 80, targetAngle |-> 0, endstopTurns |-> 200],
   [torque |-> 35, stiffness |-> 5, targetAngle |-> -9000, endstopTurns |-> 250]}

Configs ==
  {[mode |-> m, torque |-> n.torque, stiffness |-> n.stiffness,
    targetAngle |-> n.targetAngle, endstopTurns |-> n.endstopTurns,
    endstopMinAngle |-> -((n.endstopTurns * 360) \div 2),
    endstopMaxAngle |-> (n.endstopTurns * 360) \div 2,
    endstopMode |-> e, isSticky |-> b] :
     m \in Modes \cup {UnknownMode}, n \in Numbers, e \in EndstopModes, b \in BOOLEAN}

\* ------------------------------------------------------------------- state
VARIABLES
  state,                  \* TFDState: the telemetry fields
  isConnected, isConnecting, isDeviceResponding,
  error, lastResponse, lastAngleUpdate,
  reconnectAttempts, isReconnecting, isInGracePeriod,
  lastPortPath, hasAttemptedReconnect,
  timers,                 \* pending 2000 ms timers, in the order armed
  handlerClosure,         \* render captured by the serial handlers effect
  rc,                     \* the handleReconnection call chain in flight
  pollStart,              \* the 300 ms timer of the polling effect is pending
  pollRunning,            \* the interval of pollIntervalRef is running
  portOpen,               \* main process: global.serialPort.isOpen
  inbox,                  \* main process -> renderer messages, FIFO
  isPolling,              \* state.isPolling
  config,                 \* TFDState: the fields of the haptic configuration
  wire,                   \* the lines the main process wrote to the port
  followUps,              \* pending 50 ms and 100 ms timers of a poll tick
  availablePorts,         \* the ports of the last scan
  lastProductId,          \* localStorage: lastConnectedProductId
  auto,                   \* the handleAutoConnect call in flight
  haptic                  \* HapticSerialInterface: its calls and its callback map

vars == <<state, isConnected, isConnecting, isDeviceResponding, error,
          lastResponse, lastAngleUpdate, reconnectAttempts, isReconnecting,
          isInGracePeriod, lastPortPath, hasAttemptedReconnect,
          timers, handlerClosure, rc,
          pollStart, pollRunning, portOpen, inbox,
          isPolling, config, wire, followUps,
          availablePorts, lastProductId, auto, haptic>>

\* setTimeout / clearTimeout on the queue of 2000 ms timers
setTimeout(q, id) == Append(q, id)
clearTimeout_Keeps(q, id) == q
clearTimeout(q, id) == SelectSeq(q, LAMBDA t : t # id)
pending(q, id) == \E i \in 1..Len(q) : q[i] = id
count(q, id) == Cardinality({i \in 1..Len(q) : q[i] = id})

RcIdle == [pc |-> "idle", attempts |-> 0, port |-> ""]

\* a port serial-list-ports reports; NoProductId for one without product id
NoProductId == "undefined"
DEFAULT_PRODUCT_ID == "1002"
Port(path, productId) == [path |-> path, productId |-> productId]

\* localStorage.getItem(LAST_PRODUCT_ID_KEY) || DEFAULT_PRODUCT_ID
getLastProductId(item) == IF item \in {"null", ""} THEN DEFAULT_PRODUCT_ID ELSE item

\* connect(): port = availablePorts.find(p => p.path === targetPort);
\* if (port?.productId) setLastProductId(port.productId)
storeProductId(item, ports, path) ==
  LET found == SelectSeq(ports, LAMBDA p : p.path = path)
      productId == IF found = <<>> THEN NoProductId ELSE found[1].productId
  IN IF productId \notin {NoProductId, ""} THEN productId ELSE item

Closed == [t |-> "closed", ok |-> TRUE]
Reply(type, ok) == [t |-> type, ok |-> ok]
\* the result of a write of sendTFDConfig, with the state of its closure
ConfigMsg(type, ok, c) == [t |-> type, ok |-> ok, cfg |-> c]

\* the configuration fields of useState<TFDState>; numbers in hundredths
InitialConfig ==
  [mode |-> "none", torque |-> 20, stiffness |-> 80, targetAngle |-> 0,
   endstopTurns |-> 100, endstopMinAngle |-> -18000, endstopMaxAngle |-> 18000,
   endstopMode |-> "none", isSticky |-> FALSE]

InitSession ==
  /\ state = [currentAngle |-> "0", currentVelocity |-> "0", currentTorque |-> "0"]
  /\ isConnected = FALSE
  /\ isConnecting = FALSE
  /\ isDeviceResponding = FALSE
  /\ error = NoError
  /\ lastResponse = "null"
  /\ lastAngleUpdate = FALSE
  /\ reconnectAttempts = 0
  /\ isReconnecting = FALSE
  /\ isInGracePeriod = FALSE
  /\ lastPortPath = ""
  /\ hasAttemptedReconnect = FALSE
  /\ timers = <<>>
  /\ handlerClosure = [isReconnecting |-> FALSE, reconnectAttempts |-> 0, lastPortPath |-> ""]
  /\ rc = RcIdle
  /\ pollStart = FALSE
  /\ pollRunning = FALSE
  /\ portOpen = FALSE
  /\ inbox = <<>>
  /\ isPolling = TRUE
  /\ wire = <<>>
  /\ followUps = <<>>
  /\ availablePorts = <<Port("COM3", "1002")>>
  /\ lastProductId = "1002"
  /\ auto = [pc |-> "idle", ports |-> <<>>, port |-> ""]
  /\ haptic = [connected |-> FALSE, callbacks |-> {},
               calls |-> [id \in 1..MaxCalls |->
                 [st |-> "idle", value |-> "", timer |-> FALSE, sending |-> FALSE]]]

Init == InitSession /\ config = InitialConfig

\* --------------------------------------------------------- main process (IPC)
\* global.serialPort.close(): the 'close' handler sends serial-disconnected
closePort(tr) ==
  IF tr.open THEN [open |-> FALSE, box |-> Append(tr.box, Closed)] ELSE tr

OpenOutcomes == {"opened", "openError", "fault"}

\* ipcMain.handle("serial-connect"): the port, and the reply sent
serialConnect(tr, outcome, type) ==
  IF outcome = "fault"
  THEN [open |-> tr.open, box |-> Append(tr.box, Reply(type, FALSE))]
  ELSE LET c == closePort(tr)
       IN [open |-> (outcome = "opened"), box |-> Append(c.box, Reply(type, TRUE))]

\* ipcMain.handle("serial-disconnect")
serialDisconnect(tr, fault, type) ==
  IF fault
  THEN [open |-> tr.open, box |-> Append(tr.box, Reply(type, FALSE))]
  ELSE LET c == closePort(tr)
       IN [open |-> FALSE, box |-> Append(c.box, Reply(type, TRUE))]

\* ipcMain.handle("serial-write"): the results a write can have
serialWrite(open) == IF open THEN {TRUE, FALSE} ELSE {TRUE}

Transport == [open |-> portOpen, box |-> inbox]

\* ------------------------------------------------------------ effects
\* The re-render after a task: the effects whose dependencies changed run
\* their cleanup and then their body.  tr, timer, ps, pr are the transport,
\* the 2000 ms timers and the poll timers as the task left them.  The tasks
\* that end with these effects leave the configuration, the polling switch
\* and the lines written alone.
Render(tr, timer, ps, pr) ==
  LET connChanged == isConnected' # isConnected
      serialChanged == connChanged \/ hasAttemptedReconnect' # hasAttemptedReconnect
      \* cleanup of the unmount effect, with the isConnected of the old render
      tr2 == IF connChanged /\ isConnected THEN closePort(tr) ELSE tr
  IN /\ timers' = IF serialChanged THEN clearTimeout(timer, "liveness") ELSE timer
     /\ handlerClosure' =
          IF serialChanged
          THEN [isReconnecting |-> isReconnecting',
                reconnectAttempts |-> reconnectAttempts',
                lastPortPath |-> lastPortPath']
          ELSE handlerClosure
     /\ pollStart' = IF connChanged THEN (isConnected' /\ isPolling) ELSE ps
     /\ pollRunning' = IF connChanged THEN FALSE ELSE pr
     /\ portOpen' = tr2.open
     /\ inbox' = tr2.box
     /\ UNCHANGED <<isPolling, config, wire, followUps, haptic>>

\* the tasks outside handleAutoConnect: connect() is the one task that sets
\* isConnecting, and it stores the product id of its port
Effects(tr, timer, ps, pr) ==
  /\ Render(tr, timer, ps, pr)
  /\ lastProductId' = IF isConnecting' /\ ~isConnecting
                      THEN storeProductId(lastProductId, availablePorts, lastPortPath')
                      ELSE lastProductId
  /\ UNCHANGED <<availablePorts, auto>>

\* ------------------------------------------------------------ connect()
\* maxInbox: the call is made with fewer than maxInbox messages in flight
ConnectB(p, outcome, maxInbox) ==
  /\ ~isConnected /\ ~isConnecting
  /\ count(timers, "grace") < MaxGrace
  /\ Len(inbox) < maxInbox
  /\ p # ""
  /\ lastPortPath' = p
  /\ reconnectAttempts' = 0
  /\ hasAttemptedReconnect' = FALSE
  /\ isConnecting' = TRUE
  /\ error' = NoError
  /\ isDeviceResponding' = FALSE
  /\ UNCHANGED <<state, isConnected, lastResponse, lastAngleUpdate,
                 isReconnecting, isInGracePeriod, rc>>
  /\ Effects(serialConnect(Transport, outcome, "connectReply"),
             clearTimeout(timers, "liveness"), pollStart, pollRunning)

Connect(p, outcome) == ConnectB(p, outcome, MaxInbox)

ConnectNoPort ==
  /\ ~isConnected /\ ~isConnecting
  /\ error' = "Please select a port first"
  /\ UNCHANGED <<state, isConnected, isConnecting, isDeviceResponding,
                 lastResponse, lastAngleUpdate, reconnectAttempts, isReconnecting,
                 isInGracePeriod, lastPortPath, hasAttemptedReconnect, rc>>
  /\ Effects(Transport, timers, pollStart, pollRunning)

ConnectReply ==
  /\ inbox # <<>> /\ Head(inbox).t = "connectReply"
  /\ IF Head(inbox).ok
     THEN /\ isConnected' = TRUE
          /\ isInGracePeriod' = TRUE
          /\ lastResponse' = "connecting"
          /\ UNCHANGED <<error, isDeviceResponding>>
     ELSE /\ error' = "Connection failed"
          /\ isConnected' = FALSE
          /\ isDeviceResponding' = FALSE
          /\ UNCHANGED <<isInGracePeriod, lastResponse>>
  /\ isConnecting' = FALSE
  /\ UNCHANGED <<state, lastAngleUpdate, reconnectAttempts, isReconnecting,
                 lastPortPath, hasAttemptedReconnect, rc>>
  /\ Effects([open |-> portOpen, box |-> Tail(inbox)],
             IF Head(inbox).ok THEN setTimeout(timers, "grace") ELSE timers,
             pollStart, pollRunning)

\* ------------------------------------------- grace timer of connect()
\* setTimeout callback of connect(): up to the await of the probe write
GraceTimeout(ok) ==
  /\ timers # <<>> /\ Head(timers) = "grace"
  /\ ok \in serialWrite(portOpen)
  /\ isInGracePeriod' = FALSE
  /\ UNCHANGED <<state, isConnected, isConnecting, isDeviceResponding, error,
                 lastResponse, lastAngleUpdate, reconnectAttempts, isReconnecting,
                 lastPortPath, hasAttemptedReconnect, rc>>
  /\ Effects([open |-> portOpen, box |-> Append(inbox, Reply("probeReply", ok))],
             Tail(timers), pollStart, pollRunning)

\* the rest of the callback: isResponding is the result of the write
ProbeReply ==
  /\ inbox # <<>> /\ Head(inbox).t = "probeReply"
  /\ IF ~Head(inbox).ok
     THEN /\ error' = "Device not responding after connection"
          /\ isDeviceResponding' = FALSE
     ELSE /\ isDeviceResponding' = TRUE
          /\ UNCHANGED error
  /\ UNCHANGED <<state, isConnected, isConnecting, lastResponse, lastAngleUpdate,
                 reconnectAttempts, isReconnecting, isInGracePeriod,
                 lastPortPath, hasAttemptedReconnect, rc>>
  /\ Effects([open |-> portOpen, box |-> Tail(inbox)], timers, pollStart, pollRunning)

\* ------------------------------------------------------ handleSerialData
HandleSerialData(line) ==
  /\ portOpen /\ inbox = <<>>
  /\ LET classified == isSensorData(line) \/ isCommandResponse(line)
     IN /\ isDeviceResponding' = (isDeviceResponding \/ classified)
        /\ error' = IF classified THEN NoError ELSE error
        /\ state' = IF isSensorData(line) THEN parseSensorData(state, line) ELSE state
        /\ lastAngleUpdate' = (lastAngleUpdate \/ (isSensorData(line) /\ angleParsed(line)))
        /\ lastResponse' = "received"
        /\ UNCHANGED <<isConnected, isConnecting, reconnectAttempts, isReconnecting,
                       isInGracePeriod, lastPortPath, hasAttemptedReconnect,
                       rc>>
        /\ Effects(Transport,
                   IF classified
                   THEN setTimeout(clearTimeout(timers, "liveness"), "liveness")
                   ELSE timers,
                   pollStart, pollRunning)

\* ------------------------------------------------- handleReconnection
\* the closure of one handleReconnection: the render it was created in
canReconnect(cl) ==
  ~(cl.isReconnecting \/ cl.reconnectAttempts >= MaxReconnect \/ cl.lastPortPath = "")

\* the chain after the synchronous part of handleReconnection
rcStarted(cl) == [pc |-> "closing", attempts |-> cl.reconnectAttempts, port |-> cl.lastPortPath]

\* if (!hasAttemptedReconnect && isConnected): the values of the render the
\* serial handlers were registered in, which are the current ones, as a
\* change of either re-registers the handlers and clears the timer
reconnectTrigger(attempted, connected) == ~attempted /\ connected

\* setHasAttemptedReconnect(true) in that branch
attemptedAfterTimeout_NotSet(attempted, trigger) == attempted
attemptedAfterTimeout(attempted, trigger) == attempted \/ trigger

\* the callback of the liveness timer armed by handleSerialData
DeviceResponseTimeout ==
  /\ timers # <<>> /\ Head(timers) = "liveness"
  /\ isDeviceResponding' = FALSE
  /\ error' = "Device stopped responding."
  /\ LET trigger == reconnectTrigger(hasAttemptedReconnect, isConnected)
         starts == trigger /\ canReconnect(handlerClosure)
     IN /\ starts => rc.pc = "idle"
        /\ hasAttemptedReconnect' = attemptedAfterTimeout(hasAttemptedReconnect, trigger)
        /\ isReconnecting' = (isReconnecting \/ starts)
        /\ rc' = IF starts THEN rcStarted(handlerClosure) ELSE rc
        /\ UNCHANGED <<state, isConnected, isConnecting, lastResponse, lastAngleUpdate,
                       reconnectAttempts, isInGracePeriod, lastPortPath>>
        /\ Effects(IF starts THEN serialDisconnect(Transport, FALSE, "rcCloseReply") ELSE Transport,
                   Tail(timers), pollStart, pollRunning)

\* await serialDisconnect() returned: wait 1000 ms
RcCloseReply ==
  /\ inbox # <<>> /\ Head(inbox).t = "rcCloseReply"
  /\ rc' = [rc EXCEPT !.pc = "backoff"]
  /\ UNCHANGED <<state, isConnected, isConnecting, isDeviceResponding, error,
                 lastResponse, lastAngleUpdate, reconnectAttempts, isReconnecting,
                 isInGracePeriod, lastPortPath, hasAttemptedReconnect>>
  /\ Effects([open |-> portOpen, box |-> Tail(inbox)], timers, pollStart, pollRunning)

\* the 1000 ms wait is over: serialConnect(lastPortPath, lastBaudRate)
RcBackoffTimeout(outcome) ==
  /\ rc.pc = "backoff"
  /\ rc' = [rc EXCEPT !.pc = "opening"]
  /\ UNCHANGED <<state, isConnected, isConnecting, isDeviceResponding, error,
                 lastResponse, lastAngleUpdate, reconnectAttempts, isReconnecting,
                 isInGracePeriod, lastPortPath, hasAttemptedReconnect>>
  /\ Effects(serialConnect(Transport, outcome, "rcOpenReply"), timers, pollStart, pollRunning)

\* the result of the reopen: grace timer, or the catch block
RcOpenReply ==
  /\ inbox # <<>> /\ Head(inbox).t = "rcOpenReply"
  /\ isReconnecting' = FALSE
  /\ UNCHANGED <<state, isConnecting, isDeviceResponding, lastResponse, lastAngleUpdate,
                 lastPortPath, hasAttemptedReconnect>>
  /\ LET tr == [open |-> portOpen, box |-> Tail(inbox)]
         again == rc.attempts + 1 < MaxReconnect
     IN IF Head(inbox).ok
        THEN /\ isConnected' = TRUE
             /\ isInGracePeriod' = TRUE
             /\ rc' = [rc EXCEPT !.pc = "grace"]
             /\ UNCHANGED <<reconnectAttempts, error>>
             /\ Effects(tr, setTimeout(timers, "rcGrace"), pollStart, pollRunning)
        ELSE /\ reconnectAttempts < MaxAttempts
             /\ reconnectAttempts' = reconnectAttempts + 1
             /\ rc' = IF again THEN [rc EXCEPT !.pc = "closing"] ELSE RcIdle
             /\ error' = IF again THEN error ELSE "Failed to reconnect after multiple attempts"
             /\ UNCHANGED <<isConnected, isInGracePeriod>>
             /\ Effects(IF again THEN serialDisconnect(tr, FALSE, "rcCloseReply") ELSE tr,
                        timers, pollStart, pollRunning)

\* the grace timer armed by handleReconnection fires
RcGraceTimeout(ok) ==
  /\ timers # <<>> /\ Head(timers) = "rcGrace"
  /\ ok \in serialWrite(portOpen)
  /\ isInGracePeriod' = FALSE
  /\ rc' = [rc EXCEPT !.pc = "probing"]
  /\ UNCHANGED <<state, isConnected, isConnecting, isDeviceResponding, error,
                 lastResponse, lastAngleUpdate, reconnectAttempts, isReconnecting,
                 lastPortPath, hasAttemptedReconnect>>
  /\ Effects([open |-> portOpen, box |-> Append(inbox, Reply("rcProbeReply", ok))],
             Tail(timers), pollStart, pollRunning)

RcProbeReply ==
  /\ inbox # <<>> /\ Head(inbox).t = "rcProbeReply"
  /\ UNCHANGED <<state, isConnected, isConnecting, lastResponse, lastAngleUpdate,
                 isInGracePeriod, lastPortPath>>
  /\ LET tr == [open |-> portOpen, box |-> Tail(inbox)]
         again == rc.attempts + 1 < MaxReconnect
     IN IF Head(inbox).ok
        THEN /\ isDeviceResponding' = TRUE
             /\ reconnectAttempts' = 0
             /\ hasAttemptedReconnect' = FALSE
             /\ rc' = RcIdle
             /\ UNCHANGED <<error, isReconnecting>>
             /\ Effects(tr, timers, pollStart, pollRunning)
        ELSE /\ reconnectAttempts < MaxAttempts
             /\ reconnectAttempts' = reconnectAttempts + 1
             /\ rc' = IF again THEN [rc EXCEPT !.pc = "closing"] ELSE RcIdle
             /\ isReconnecting' = (isReconnecting \/ again)
             /\ error' = IF again THEN error ELSE "Device not responding after reconnection attempts"
             /\ isDeviceResponding' = IF again THEN isDeviceResponding ELSE FALSE
             /\ UNCHANGED hasAttemptedReconnect
             /\ Effects(IF again THEN serialDisconnect(tr, FALSE, "rcCloseReply") ELSE tr,
                        timers, pollStart, pollRunning)

\* ------------------------------------------------------------ disconnect()
\* stopPolling() and the serialDisconnect request
DisconnectB(fault, maxInbox) ==
  /\ Len(inbox) < maxInbox
  /\ UNCHANGED <<state, isConnected, isConnecting, isDeviceResponding, error,
                 lastResponse, lastAngleUpdate, reconnectAttempts, isReconnecting,
                 isInGracePeriod, lastPortPath, hasAttemptedReconnect, rc>>
  /\ Effects(serialDisconnect(Transport, fault, "disconnectReply"),
             timers, pollStart, FALSE)

Disconnect(fault) == DisconnectB(fault, MaxInbox)

\* if (result.success): the state cleared by disconnect()
disconnected_KeepsBookkeeping ==
  /\ isConnected' = FALSE
  /\ isDeviceResponding' = FALSE
  /\ error' = NoError
  /\ UNCHANGED <<lastResponse, lastAngleUpdate>>
disconnected_Toggles ==
  /\ isConnected' = ~isConnected
  /\ isDeviceResponding' = FALSE
  /\ error' = NoError
  /\ lastResponse' = "null"
  /\ lastAngleUpdate' = FALSE
disconnected ==
  /\ isConnected' = FALSE
  /\ isDeviceResponding' = FALSE
  /\ error' = NoError
  /\ lastResponse' = "null"
  /\ lastAngleUpdate' = FALSE

DisconnectReply ==
  /\ inbox # <<>> /\ Head(inbox).t = "disconnectReply"
  /\ IF Head(inbox).ok
     THEN disconnected
     ELSE /\ error' = "Disconnect failed"
          /\ UNCHANGED <<isConnected, isDeviceResponding, lastResponse, lastAngleUpdate>>
  /\ UNCHANGED <<state, isConnecting, reconnectAttempts, isReconnecting,
                 isInGracePeriod, lastPortPath, hasAttemptedReconnect, rc>>
  /\ Effects([open |-> portOpen, box |-> Tail(inbox)], timers, pollStart, pollRunning)

\* ------------------------------------------------- serial-disconnected event
HandleSerialDisconnected ==
  /\ inbox # <<>> /\ Head(inbox).t = "closed"
  /\ isConnected' = FALSE
  /\ isDeviceResponding' = FALSE
  /\ error' = "Device disconnected"
  /\ UNCHANGED <<state, isConnecting, lastResponse, lastAngleUpdate, reconnectAttempts,
                 isReconnecting, isInGracePeriod, lastPortPath, hasAttemptedReconnect,
                 rc>>
  /\ Effects([open |-> portOpen, box |-> Tail(inbox)],
             clearTimeout(timers, "liveness"), pollStart, pollRunning)

\* the device is unplugged: the port closes by itself
PortClosedB(maxInbox) ==
  /\ portOpen
  /\ Len(inbox) < maxInbox
  /\ UNCHANGED <<state, isConnected, isConnecting, isDeviceResponding, error,
                 lastResponse, lastAngleUpdate, reconnectAttempts, isReconnecting,
                 isInGracePeriod, lastPortPath, hasAttemptedReconnect, rc>>
  /\ Effects(closePort(Transport), timers, pollStart, pollRunning)

PortClosed == PortClosedB(MaxInbox)

\* ------------------------------------------------------------------ poller
\* the 300 ms timer of the polling effect: startPolling()
StartPolling ==
  /\ pollStart
  /\ UNCHANGED <<state, isConnected, isConnecting, isDeviceResponding, error,
                 lastResponse, lastAngleUpdate, reconnectAttempts, isReconnecting,
                 isInGracePeriod, lastPortPath, hasAttemptedReconnect, rc>>
  /\ Effects(Transport, timers, FALSE, TRUE)

\* one tick of the interval: getCurrentAngle() and the result of its write
PollTick(ok) ==
  /\ pollRunning
  /\ ok \in serialWrite(portOpen)
  /\ IF ok
     THEN UNCHANGED <<isDeviceResponding, error>>
     ELSE /\ isDeviceResponding' = FALSE
          /\ error' = "Device not responding to data request"
  /\ UNCHANGED <<state, isConnected, isConnecting, lastResponse, lastAngleUpdate,
                 reconnectAttempts, isReconnecting, isInGracePeriod, lastPortPath,
                 hasAttemptedReconnect, rc>>
  /\ Effects(Transport, timers, pollStart, pollRunning)

Next ==
  \/ \E p \in Ports, o \in OpenOutcomes : Connect(p, o)
  \/ ConnectNoPort
  \/ ConnectReply
  \/ \E ok \in BOOLEAN : GraceTimeout(ok)
  \/ ProbeReply
  \/ \E line \in Lines : HandleSerialData(line)
  \/ DeviceResponseTimeout
  \/ RcCloseReply
  \/ \E o \in OpenOutcomes : RcBackoffTimeout(o)
  \/ RcOpenReply
  \/ \E ok \in BOOLEAN : RcGraceTimeout(ok)
  \/ RcProbeReply
  \/ \E f \in BOOLEAN : Disconnect(f)
  \/ DisconnectReply
  \/ HandleSerialDisconnected
  \/ PortClosed
  \/ StartPolling
  \/ PollTick(TRUE)
  \/ PollTick(FALSE)

Spec == Init /\ [][Next]_vars

\* The same session with one more message in flight when the user or the
\* port acts: the races between a reply in flight and a new command.
NextWide ==
  \/ \E p \in Ports, o \in OpenOutcomes : ConnectB(p, o, MaxInbox + 1)
  \/ ConnectNoPort
  \/ ConnectReply
  \/ \E ok \in BOOLEAN : GraceTimeout(ok)
  \/ ProbeReply
  \/ \E line \in Lines : HandleSerialData(line)
  \/ DeviceResponseTimeout
  \/ RcCloseReply
  \/ \E o \in OpenOutcomes : RcBackoffTimeout(o)
  \/ RcOpenReply
  \/ \E ok \in BOOLEAN : RcGraceTimeout(ok)
  \/ RcProbeReply
  \/ \E f \in BOOLEAN : DisconnectB(f, MaxInbox + 1)
  \/ DisconnectReply
  \/ HandleSerialDisconnected
  \/ PortClosedB(MaxInbox + 1)
  \/ StartPolling
  \/ PollTick(TRUE)
  \/ PollTick(FALSE)

SpecWide == Init /\ [][NextWide]_vars

\* ======================================================= the decoder's lines
\* the session of preload.js receiving every line of DecoderLines
NextDecode ==
  \/ \E p \in Ports, o \in OpenOutcomes : Connect(p, o)
  \/ ConnectReply
  \/ \E ok \in BOOLEAN : GraceTimeout(ok)
  \/ ProbeReply
  \/ \E line \in DecoderLines : HandleSerialData(line)
  \/ \E f \in BOOLEAN : Disconnect(f)
  \/ DisconnectReply
  \/ HandleSerialDisconnected
  \/ PortClosed

SpecDecode == Init /\ [][NextDecode]_vars


NextReconnect ==
  \/ \E p \in {"COM3", "COM4"}, o \in OpenOutcomes : Connect(p, o)
  \/ ConnectReply
  \/ \E ok \in BOOLEAN : GraceTimeout(ok)
  \/ ProbeReply
  \/ HandleSerialData(LineOk)
  \/ DeviceResponseTimeout
  \/ RcCloseReply
  \/ \E o \in OpenOutcomes : RcBackoffTimeout(o)
  \/ RcOpenReply
  \/ \E ok \in BOOLEAN : RcGraceTimeout(ok)
  \/ RcProbeReply
  \/ \E f \in BOOLEAN : Disconnect(f)
  \/ DisconnectReply
  \/ HandleSerialDisconnected
  \/ PortClosed

SpecReconnect == Init /\ [][NextReconnect]_vars

\* ======================================================= handleAutoConnect
\* the port lists a scan can return
PortLists ==
  {<<>>,
   <<Port("COM5", NoProductId)>>,
   <<Port("COM5", NoProductId), Port("COM4", "2004")>>,
   <<Port("COM4", "2004"), Port("COM3", "1002")>>,
   <<Port("COM5", NoProductId), Port("COM3", "1002")>>}

\* ports.filter(port => port.productId !== undefined)
filteredPorts(ports) == SelectSeq(ports, LAMBDA port : port.productId # NoProductId)

\* filteredPorts.find(port => port.productId === lastProductId): the path
\* handleAutoConnect connects to, "" for none
autoConnectTarget(ports, item) ==
  LET preferred == SelectSeq(filteredPorts(ports),
                             LAMBDA port : port.productId = getLastProductId(item))
  IN IF preferred = <<>> THEN "" ELSE preferred[1].path

\* the variant connects to filteredPorts[0]
autoConnectTargetTsx(ports) ==
  IF filteredPorts(ports) = <<>> THEN "" ELSE filteredPorts(ports)[1].path

\* the error handleAutoConnect ends with when it does not connect
autoConnectError(ports) ==
  IF ports = <<>> THEN "No serial ports found."
  ELSE IF filteredPorts(ports) = <<>>
  THEN "No compatible devices with Product ID found."
  ELSE NoError

\* setIsAutoConnecting(true) ... await listAvailablePorts(): the list is the
\* one the main process returns
StartListing(list) ==
  /\ auto' = [pc |-> "listing",
              ports |-> IF auto.pc = "idle" THEN availablePorts ELSE auto.ports,
              port |-> ""]
  /\ error' = NoError
  /\ availablePorts' = <<>>
  /\ inbox' = Append(inbox, [t |-> "portsReply", ok |-> TRUE, ports |-> list])
  /\ UNCHANGED <<state, isConnected, isConnecting, isDeviceResponding,
                 lastResponse, lastAngleUpdate, reconnectAttempts, isReconnecting,
                 isInGracePeriod, lastPortPath, hasAttemptedReconnect,
                 timers, handlerClosure, rc, pollStart, pollRunning, portOpen,
                 isPolling, config, wire, followUps, lastProductId, haptic>>

\* a click on Auto-connect: up to the first await, which is the one of
\* disconnect() in a connected session
AutoConnect(fault, list) ==
  /\ auto.pc = "idle" /\ ~isConnecting
  /\ Len(inbox) < MaxInbox
  /\ IF isConnected
     THEN /\ list = <<>>
          /\ auto' = [pc |-> "disconnecting", ports |-> availablePorts, port |-> ""]
          /\ UNCHANGED <<state, isConnected, isConnecting, isDeviceResponding, error,
                         lastResponse, lastAngleUpdate, reconnectAttempts,
                         isReconnecting, isInGracePeriod, lastPortPath,
                         hasAttemptedReconnect, rc, availablePorts, lastProductId>>
          /\ Render(serialDisconnect(Transport, fault, "disconnectReply"),
                    timers, pollStart, FALSE)
     ELSE ~fault /\ StartListing(list)

\* disconnect() returned to handleAutoConnect
AutoAfterDisconnect(list) ==
  /\ auto.pc = "disconnecting"
  /\ \A i \in 1..Len(inbox) : inbox[i].t # "disconnectReply"
  /\ StartListing(list)

\* the port list arrived: the choice of the port and connect() up to its await
AutoPortsReply(outcome) ==
  /\ inbox # <<>> /\ Head(inbox).t = "portsReply"
  /\ LET ports == Head(inbox).ports
         tr == [open |-> portOpen, box |-> Tail(inbox)]
         target == autoConnectTarget(ports, lastProductId)
     IN /\ availablePorts' = ports
        /\ auto' = [pc |-> "idle", ports |-> <<>>, port |-> target]
        /\ IF target = ""
           THEN /\ outcome = "opened"
                /\ error' = autoConnectError(ports)
                /\ UNCHANGED <<state, isConnected, isConnecting, isDeviceResponding,
                               lastResponse, lastAngleUpdate, reconnectAttempts,
                               isReconnecting, isInGracePeriod, lastPortPath,
                               hasAttemptedReconnect, rc, lastProductId>>
                /\ Render(tr, timers, pollStart, pollRunning)
           ELSE /\ count(timers, "grace") < MaxGrace
                /\ lastPortPath' = target
                /\ reconnectAttempts' = 0
                /\ hasAttemptedReconnect' = FALSE
                /\ lastProductId' = storeProductId(lastProductId, auto.ports, target)
                /\ isConnecting' = TRUE
                /\ error' = NoError
                /\ isDeviceResponding' = FALSE
                /\ UNCHANGED <<state, isConnected, lastResponse, lastAngleUpdate,
                               isReconnecting, isInGracePeriod, rc>>
                /\ Render(serialConnect(tr, outcome, "connectReply"),
                          clearTimeout(timers, "liveness"), pollStart, pollRunning)

\* the session with its Auto-connect button
NextAuto ==
  \/ \E f \in BOOLEAN, list \in PortLists : AutoConnect(f, list)
  \/ \E list \in PortLists : AutoAfterDisconnect(list)
  \/ \E o \in OpenOutcomes : AutoPortsReply(o)
  \/ \E p \in {"COM3", "COM4"}, o \in OpenOutcomes : auto.pc = "idle" /\ Connect(p, o)
  \/ ConnectReply
  \/ DisconnectReply
  \/ HandleSerialDisconnected

SpecAuto == Init /\ [][NextAuto]_vars

\* =========================================================== sendTFDConfig
\* the port takes the line if it is open and the write succeeds
written_Always(w, ok, line) == Append(w, line)
written(w, ok, line) == IF portOpen /\ ok THEN Append(w, line) ELSE w

\* the call up to the await of the first write
SendTFDConfig(ok) ==
  /\ Len(wire) + 2 * (Len(inbox) + 1) <= MaxWire
  /\ IF ~isConnected
     THEN /\ ok
          /\ error' = NotConnected
          /\ UNCHANGED <<wire, inbox>>
     ELSE /\ ok \in serialWrite(portOpen)
          /\ wire' = written(wire, ok, formatTFDCommand(config))
          /\ inbox' = Append(inbox, ConfigMsg("configReply", ok, config))
          /\ UNCHANGED error
  /\ UNCHANGED <<state, isConnected, isConnecting, isDeviceResponding,
                 lastResponse, lastAngleUpdate, reconnectAttempts, isReconnecting,
                 isInGracePeriod, lastPortPath, hasAttemptedReconnect,
                 timers, handlerClosure, rc, pollStart, pollRunning, portOpen,
                 isPolling, config, followUps,
                 availablePorts, lastProductId, auto, haptic>>

\* the first write returned: the sticky line of the endstops mode, or the end
ConfigReply(ok) ==
  /\ inbox # <<>> /\ Head(inbox).t = "configReply"
  /\ LET m == Head(inbox)
     IN IF ~m.ok
        THEN /\ ok
             /\ error' = "Failed to send config"
             /\ inbox' = Tail(inbox)
             /\ UNCHANGED <<wire, lastResponse>>
        ELSE IF m.cfg.mode = "endstops"
        THEN /\ ok \in serialWrite(portOpen)
             /\ wire' = written(wire, ok, stickyCommand(m.cfg))
             /\ inbox' = Append(Tail(inbox), ConfigMsg("stickyReply", ok, m.cfg))
             /\ UNCHANGED <<error, lastResponse>>
        ELSE /\ ok
             /\ error' = NoError
             /\ lastResponse' = "tfd_config"
             /\ inbox' = Tail(inbox)
             /\ UNCHANGED wire
  /\ UNCHANGED <<state, isConnected, isConnecting, isDeviceResponding,
                 lastAngleUpdate, reconnectAttempts, isReconnecting,
                 isInGracePeriod, lastPortPath, hasAttemptedReconnect,
                 timers, handlerClosure, rc, pollStart, pollRunning, portOpen,
                 isPolling, config, followUps,
                 availablePorts, lastProductId, auto, haptic>>

\* the write of the sticky line returned
StickyReply ==
  /\ inbox # <<>> /\ Head(inbox).t = "stickyReply"
  /\ IF Head(inbox).ok
     THEN error' = NoError /\ lastResponse' = "tfd_config"
     ELSE error' = "Failed to set sticky mode" /\ UNCHANGED lastResponse
  /\ inbox' = Tail(inbox)
  /\ UNCHANGED <<state, isConnected, isConnecting, isDeviceResponding,
                 lastAngleUpdate, reconnectAttempts, isReconnecting,
                 isInGracePeriod, lastPortPath, hasAttemptedReconnect,
                 timers, handlerClosure, rc, pollStart, pollRunning, portOpen,
                 isPolling, config, wire, followUps,
                 availablePorts, lastProductId, auto, haptic>>

\* the session with a configuration to send
NextConfig ==
  \/ \E p \in Ports, o \in OpenOutcomes : Connect(p, o)
  \/ ConnectReply
  \/ \E ok \in BOOLEAN : GraceTimeout(ok)
  \/ ProbeReply
  \/ \E f \in BOOLEAN : Disconnect(f)
  \/ DisconnectReply
  \/ HandleSerialDisconnected
  \/ PortClosed
  \/ \E ok \in BOOLEAN : SendTFDConfig(ok)
  \/ \E ok \in BOOLEAN : ConfigReply(ok)
  \/ StickyReply

InitConfig == InitSession /\ config \in Configs

SpecConfig == InitConfig /\ [][NextConfig]_vars

\* ====================================================== reset and calibrate
\* reset() and calibrate() up to the await of the write; both write the
\* line `set zero`
ZeroCommand(kind, ok) ==
  /\ Len(wire) + 2 * (Len(inbox) + 1) <= MaxWire
  /\ IF ~isConnected
     THEN /\ ok
          /\ error' = NotConnected
          /\ UNCHANGED <<wire, inbox>>
     ELSE /\ ok \in serialWrite(portOpen)
          /\ wire' = written(wire, ok, "set zero\n")
          /\ inbox' = Append(inbox, Reply(kind, ok))
          /\ UNCHANGED error
  /\ UNCHANGED <<state, isConnected, isConnecting, isDeviceResponding,
                 lastResponse, lastAngleUpdate, reconnectAttempts, isReconnecting,
                 isInGracePeriod, lastPortPath, hasAttemptedReconnect,
                 timers, handlerClosure, rc, pollStart, pollRunning, portOpen,
                 isPolling, config, followUps,
                 availablePorts, lastProductId, auto, haptic>>

Reset(ok) == ZeroCommand("resetReply", ok)
Calibrate(ok) == ZeroCommand("calibrateReply", ok)

\* the write of reset() or calibrate() returned
ZeroReply(kind, sent, failed) ==
  /\ inbox # <<>> /\ Head(inbox).t = kind
  /\ IF Head(inbox).ok
     THEN lastResponse' = sent /\ UNCHANGED error
     ELSE error' = failed /\ UNCHANGED lastResponse
  /\ inbox' = Tail(inbox)
  /\ UNCHANGED <<state, isConnected, isConnecting, isDeviceResponding,
                 lastAngleUpdate, reconnectAttempts, isReconnecting,
                 isInGracePeriod, lastPortPath, hasAttemptedReconnect,
                 timers, handlerClosure, rc, pollStart, pollRunning, portOpen,
                 isPolling, config, wire, followUps,
                 availablePorts, lastProductId, auto, haptic>>

ResetReply == ZeroReply("resetReply", "reset_sent", "Failed to reset device")
CalibrateReply ==
  ZeroReply("calibrateReply", "calibration_sent", "Failed to calibrate device")

\* requestCurrentAngle and requestCurrentVelocity: the manual requests; the
\* result of the write is handled as in the poller
requestCurrent(line, failure, ok) ==
  /\ Len(wire) + 2 * Len(inbox) < MaxWire
  /\ IF ~isConnected
     THEN /\ ok
          /\ error' = NotConnected
          /\ UNCHANGED <<wire, isDeviceResponding>>
     ELSE /\ ok \in serialWrite(portOpen)
          /\ wire' = written(wire, ok, line)
          /\ isDeviceResponding' = (isDeviceResponding /\ ok)
          /\ error' = IF ok THEN error ELSE failure
  /\ UNCHANGED <<state, isConnected, isConnecting,
                 lastResponse, lastAngleUpdate, reconnectAttempts, isReconnecting,
                 isInGracePeriod, lastPortPath, hasAttemptedReconnect,
                 timers, handlerClosure, rc, pollStart, pollRunning, portOpen,
                 inbox, isPolling, config, followUps,
                 availablePorts, lastProductId, auto, haptic>>

\* the session with its writing commands
NextCommands ==
  \/ \E p \in Ports, o \in OpenOutcomes : Connect(p, o)
  \/ ConnectReply
  \/ \E f \in BOOLEAN : Disconnect(f)
  \/ DisconnectReply
  \/ HandleSerialDisconnected
  \/ PortClosed
  \/ \E ok \in BOOLEAN : SendTFDConfig(ok)
  \/ \E ok \in BOOLEAN : ConfigReply(ok)
  \/ StickyReply
  \/ \E ok \in BOOLEAN : Reset(ok)
  \/ ResetReply
  \/ \E ok \in BOOLEAN : Calibrate(ok)
  \/ CalibrateReply
  \/ \E ok \in BOOLEAN :
       requestCurrent("get all\n", "Device not responding to data request", ok)
  \/ \E ok \in BOOLEAN :
       requestCurrent("get vel\n", "Device not responding to velocity request", ok)

InitCommands ==
  /\ InitSession
  /\ config \in {c \in Configs : /\ c.mode \in {"none", "endstops"}
                                 /\ c.torque = 20
                                 /\ c.endstopMode \in {"none", "soft"}}

SpecCommands == InitCommands /\ [][NextCommands]_vars

\* ============================================================= updateState
\* the spread alone
updateState_KeepsAngles(prev, updates) ==
  [k \in DOMAIN prev |-> IF k \in DOMAIN updates THEN updates[k] ELSE prev[k]]

\* updateState: the updates spread over the previous state; the endstop
\* angles are recomputed when the updates carry endstopTurns
updateState(prev, updates) ==
  LET newState == [k \in DOMAIN prev |->
                     IF k \in DOMAIN updates THEN updates[k] ELSE prev[k]]
  IN IF "endstopTurns" \in DOMAIN updates
     THEN LET totalDegrees == updates.endstopTurns * 360
          IN [newState EXCEPT !.endstopMinAngle = -(totalDegrees \div 2),
                              !.endstopMaxAngle = totalDegrees \div 2]
     ELSE newState

\* the dependencies of the configuration effect differ between two renders
configDepsChanged(old, new) ==
  \/ old.mode # new.mode
  \/ old.torque # new.torque
  \/ old.stiffness # new.stiffness
  \/ old.targetAngle # new.targetAngle
  \/ old.endstopTurns # new.endstopTurns

\* one handler of the configuration controls: updateState(updates), the
\* sendTFDConfig() the handler itself calls on the render it closes over
\* (handlerSends), and the configuration effect of the next render
UpdateConfig(updates, handlerSends, ok1, ok2) ==
  LET new == updateState(config, updates)
      calls == (IF isConnected /\ handlerSends THEN <<config>> ELSE <<>>)
               \o (IF isConnected /\ configDepsChanged(config, new)
                   THEN <<new>> ELSE <<>>)
      w1 == IF Len(calls) >= 1
            THEN written(wire, ok1, formatTFDCommand(calls[1])) ELSE wire
      b1 == IF Len(calls) >= 1
            THEN Append(inbox, ConfigMsg("configReply", ok1, calls[1])) ELSE inbox
      w2 == IF Len(calls) >= 2
            THEN written(w1, ok2, formatTFDCommand(calls[2])) ELSE w1
      b2 == IF Len(calls) >= 2
            THEN Append(b1, ConfigMsg("configReply", ok2, calls[2])) ELSE b1
  IN /\ new # config
     /\ isConnected => Len(wire) + 2 * Len(inbox) <= MaxWritten
     /\ ok1 \in (IF Len(calls) >= 1 THEN serialWrite(portOpen) ELSE {TRUE})
     /\ ok2 \in (IF Len(calls) >= 2 THEN serialWrite(portOpen) ELSE {TRUE})
     /\ config' = new
     /\ wire' = w2
     /\ inbox' = b2
     /\ UNCHANGED <<state, isConnected, isConnecting, isDeviceResponding, error,
                    lastResponse, lastAngleUpdate, reconnectAttempts,
                    isReconnecting, isInGracePeriod, lastPortPath,
                    hasAttemptedReconnect, timers, handlerClosure, rc,
                    pollStart, pollRunning, portOpen, isPolling, followUps,
                    availablePorts, lastProductId, auto, haptic>>

\* a click on a mode button
HandleModeChange(newMode, ok) ==
  LET newStiffness == IF newMode = "inertial-control" THEN 25
                      ELSE IF newMode = "proportional-control" THEN 40
                      ELSE config.stiffness
  IN UpdateConfig([mode |-> newMode, stiffness |-> newStiffness], FALSE, ok, TRUE)

\* onChange of the torque input
TorqueChange(v, ok) ==
  /\ config.mode = "increased-torque"
  /\ UpdateConfig([torque |-> v], FALSE, ok, TRUE)

\* onChange of the stiffness and of the inertia factor input
StiffnessChange(v, ok) ==
  /\ config.mode \in {"proportional-control", "inertial-control"}
  /\ UpdateConfig([stiffness |-> v], FALSE, ok, TRUE)

\* onChange of the endstop mode select
EndstopModeChange(newMode, ok) ==
  /\ config.mode = "endstops"
  /\ UpdateConfig([endstopMode |-> newMode], TRUE, ok, TRUE)

\* onChange of the turns input: parseFloat(value) || 0.5
EndstopTurnsChange(v, ok1, ok2) ==
  /\ config.mode = "endstops"
  /\ LET newTurns == IF v = 0 THEN 50 ELSE v
     IN UpdateConfig([endstopTurns |-> newTurns], TRUE, ok1, ok2)

\* onClick of the sticky buttons: the line is written without an await
StickyToggle(ok) ==
  /\ config.mode = "endstops"
  /\ isConnected => Len(wire) + 2 * Len(inbox) <= MaxWritten
  /\ LET newSticky == ~config.isSticky
         new == updateState(config, [isSticky |-> newSticky])
     IN /\ config' = new
        /\ IF isConnected
           THEN /\ ok \in serialWrite(portOpen)
                /\ wire' = written(wire, ok, stickyCommand(new))
           ELSE ok /\ UNCHANGED wire
  /\ UNCHANGED <<state, isConnected, isConnecting, isDeviceResponding, error,
                 lastResponse, lastAngleUpdate, reconnectAttempts,
                 isReconnecting, isInGracePeriod, lastPortPath,
                 hasAttemptedReconnect, timers, handlerClosure, rc,
                 pollStart, pollRunning, portOpen, inbox, isPolling, followUps,
                 availablePorts, lastProductId, auto, haptic>>

\* the session with its configuration controls; the values typed into the
\* number inputs are in hundredths (0 stands for 0 and for an empty field:
\* both are falsy after parseFloat)
NextUpdate ==
  \/ \E p \in Ports, o \in OpenOutcomes : Connect(p, o)
  \/ ConnectReply
  \/ \E m \in {"none", "increased-torque", "proportional-control",
               "inertial-control", "endstops"}, ok \in BOOLEAN :
       HandleModeChange(m, ok)
  \/ \E v \in {0, 35}, ok \in BOOLEAN : TorqueChange(v, ok)
  \/ \E v \in {5}, ok \in BOOLEAN : StiffnessChange(v, ok)
  \/ \E e \in {"none", "soft"}, ok \in BOOLEAN : EndstopModeChange(e, ok)
  \/ \E v \in {0, 250}, ok1, ok2 \in BOOLEAN : EndstopTurnsChange(v, ok1, ok2)
  \/ \E ok \in BOOLEAN : StickyToggle(ok)
  \/ \E ok \in BOOLEAN : ConfigReply(ok)
  \/ StickyReply

SpecUpdate == Init /\ [][NextUpdate]_vars

\* ==================================================== the polling switch
\* updateState({ isPolling: b }) and the polling effect it triggers
SetPolling(b) ==
  /\ isPolling # b
  /\ isPolling' = b
  /\ pollStart' = (isConnected /\ b)
  /\ pollRunning' = FALSE
  /\ UNCHANGED <<state, isConnected, isConnecting, isDeviceResponding, error,
                 lastResponse, lastAngleUpdate, reconnectAttempts, isReconnecting,
                 isInGracePeriod, lastPortPath, hasAttemptedReconnect,
                 timers, handlerClosure, rc, portOpen, inbox,
                 config, wire, followUps,
                 availablePorts, lastProductId, auto, haptic>>

\* the polling effect after a change of one of its dependencies: the cleanup
\* (clearTimeout of the 300 ms timer, stopPolling() clears the interval) and
\* the 300 ms timer of the new render; start: that timer is pending,
\* running: an interval armed by startPolling() is pending
pollingEffect_KeepsInterval(connected, polling, running) ==
  [start |-> connected /\ polling, running |-> running]
pollingEffect(connected, polling, running) ==
  [start |-> connected /\ polling, running |-> FALSE]

\* onChange of the poll interval input (disabled while polling is off): the
\* interval the next startPolling() arms is the one of the new render
SetPollInterval ==
  /\ isPolling
  /\ pollStart' = pollingEffect(isConnected, isPolling, pollRunning).start
  /\ pollRunning' = pollingEffect(isConnected, isPolling, pollRunning).running
  /\ UNCHANGED <<state, isConnected, isConnecting, isDeviceResponding, error,
                 lastResponse, lastAngleUpdate, reconnectAttempts, isReconnecting,
                 isInGracePeriod, lastPortPath, hasAttemptedReconnect,
                 timers, handlerClosure, rc, portOpen, inbox,
                 isPolling, config, wire, followUps,
                 availablePorts, lastProductId, auto, haptic>>

\* the session with its polling controls
NextPoll ==
  \/ \E p \in Ports, o \in OpenOutcomes : Connect(p, o)
  \/ ConnectReply
  \/ \E ok \in BOOLEAN : GraceTimeout(ok)
  \/ ProbeReply
  \/ \E f \in BOOLEAN : Disconnect(f)
  \/ DisconnectReply
  \/ HandleSerialDisconnected
  \/ PortClosed
  \/ \E b \in BOOLEAN : SetPolling(b)
  \/ SetPollInterval
  \/ StartPolling
  \/ \E ok \in BOOLEAN : PollTick(ok)

\* the 300 ms timer of the polling effect fires unless it is cleared
SpecPoll == Init /\ [][NextPoll]_vars /\ WF_vars(StartPolling)

\* ======================= the variant of src/components/mini-tfd-control.tsx
\* The second MiniTFDControl of that file has no grace period and no
\* reconnection; its serial handlers are registered once, its poll tick asks
\* for the three values one after the other, and it decodes single-field
\* lines.  disconnect(), startPolling() and the polling effect are the code
\* of preload.js.

\* the state of the preload.js session this variant does not have
preloadOnly == <<reconnectAttempts, isReconnecting, isInGracePeriod,
                 lastPortPath, hasAttemptedReconnect, handlerClosure, rc,
                 lastProductId>>

\* the polling effect and the unmount effect after a task
RenderTsx(tr, ps, pr) ==
  LET connChanged == isConnected' # isConnected
      tr2 == IF connChanged /\ isConnected THEN closePort(tr) ELSE tr
  IN /\ pollStart' = IF connChanged THEN (isConnected' /\ isPolling) ELSE ps
     /\ pollRunning' = IF connChanged THEN FALSE ELSE pr
     /\ portOpen' = tr2.open
     /\ inbox' = tr2.box
     /\ UNCHANGED preloadOnly
     /\ UNCHANGED <<isPolling, config, wire, haptic>>

\* the tasks outside handleAutoConnect
EffectsTsx(tr, ps, pr) ==
  /\ RenderTsx(tr, ps, pr)
  /\ UNCHANGED <<availablePorts, auto>>

ConnectTsx(p, outcome) ==
  /\ ~isConnected /\ ~isConnecting
  /\ Len(inbox) < MaxInbox
  /\ p # ""
  /\ isConnecting' = TRUE
  /\ error' = NoError
  /\ isDeviceResponding' = FALSE
  /\ timers' = clearTimeout(timers, "liveness")
  /\ UNCHANGED <<state, isConnected, lastResponse, lastAngleUpdate, followUps>>
  /\ EffectsTsx(serialConnect(Transport, outcome, "connectReply"), pollStart, pollRunning)

ConnectReplyTsx ==
  /\ inbox # <<>> /\ Head(inbox).t = "connectReply"
  /\ IF Head(inbox).ok
     THEN /\ isConnected' = TRUE
          /\ lastResponse' = "connecting"
          /\ UNCHANGED <<error, isDeviceResponding>>
     ELSE /\ error' = "Connection failed"
          /\ isConnected' = FALSE
          /\ isDeviceResponding' = FALSE
          /\ UNCHANGED lastResponse
  /\ isConnecting' = FALSE
  /\ UNCHANGED <<state, lastAngleUpdate, timers, followUps>>
  /\ EffectsTsx([open |-> portOpen, box |-> Tail(inbox)], pollStart, pollRunning)

DisconnectReplyTsx ==
  /\ inbox # <<>> /\ Head(inbox).t = "disconnectReply"
  /\ IF Head(inbox).ok
     THEN disconnected
     ELSE /\ error' = "Disconnect failed"
          /\ UNCHANGED <<isConnected, isDeviceResponding, lastResponse, lastAngleUpdate>>
  /\ UNCHANGED <<state, isConnecting, timers, followUps>>
  /\ EffectsTsx([open |-> portOpen, box |-> Tail(inbox)], pollStart, pollRunning)

isSensorDataTsx(line) ==
  startsWith(line, "ANGLE:") \/ startsWith(line, "VEL:") \/ startsWith(line, "TORQUE:")

\* Number.parseFloat(cleanData.substring(KEY.length)): the rest of the line
\* begins with its first token
parseRest(line) == IF Len(line) < 2 THEN NaN ELSE parseFloat(line[2])

\* the if / else if chain of handleSerialData: the telemetry after the line
parseFieldTsx(st, line) ==
  CASE startsWith(line, "ANGLE:") ->
         IF parseRest(line) # NaN THEN [st EXCEPT !.currentAngle = parseRest(line)] ELSE st
    [] startsWith(line, "VEL:") ->
         IF parseRest(line) # NaN THEN [st EXCEPT !.currentVelocity = parseRest(line)] ELSE st
    [] startsWith(line, "TORQUE:") ->
         IF parseRest(line) # NaN THEN [st EXCEPT !.currentTorque = parseRest(line)] ELSE st
    [] OTHER -> st

HandleSerialDataTsx(line) ==
  /\ portOpen /\ inbox = <<>>
  /\ LET classified == isSensorDataTsx(line) \/ isCommandResponse(line)
     IN /\ isDeviceResponding' = (isDeviceResponding \/ classified)
        /\ error' = IF classified THEN NoError ELSE error
        /\ timers' = IF classified
                     THEN setTimeout(clearTimeout(timers, "liveness"), "liveness")
                     ELSE timers
  /\ state' = parseFieldTsx(state, line)
  /\ lastAngleUpdate' = (lastAngleUpdate \/ (startsWith(line, "ANGLE:") /\ parseRest(line) # NaN))
  /\ lastResponse' = "received"
  /\ UNCHANGED <<isConnected, isConnecting, followUps>>
  /\ EffectsTsx(Transport, pollStart, pollRunning)

\* the callback of the liveness timer: no reconnection in this variant
DeviceResponseTimeoutTsx ==
  /\ timers # <<>> /\ Head(timers) = "liveness"
  /\ isDeviceResponding' = FALSE
  /\ error' = "Device stopped responding."
  /\ timers' = Tail(timers)
  /\ UNCHANGED <<state, isConnected, isConnecting, lastResponse, lastAngleUpdate, followUps>>
  /\ EffectsTsx(Transport, pollStart, pollRunning)

HandleSerialDisconnectedTsx ==
  /\ inbox # <<>> /\ Head(inbox).t = "closed"
  /\ isConnected' = FALSE
  /\ isDeviceResponding' = FALSE
  /\ error' = "Device disconnected"
  /\ timers' = clearTimeout(timers, "liveness")
  /\ UNCHANGED <<state, isConnecting, lastResponse, lastAngleUpdate, followUps>>
  /\ EffectsTsx([open |-> portOpen, box |-> Tail(inbox)], pollStart, pollRunning)

\* one tick of the interval: getCurrentAngle() and the result of its write,
\* and the two timers for getCurrentVelocity() and getCurrentTorque()
PollTickTsx(ok) ==
  /\ pollRunning
  /\ Len(followUps) + 2 <= MaxFollowUps
  /\ ok \in serialWrite(portOpen)
  /\ IF ok
     THEN UNCHANGED <<isDeviceResponding, error>>
     ELSE /\ isDeviceResponding' = FALSE
          /\ error' = "Device not responding to angle request"
  /\ followUps' = followUps \o <<"velocity", "torque">>
  /\ UNCHANGED <<state, isConnected, isConnecting, lastResponse, lastAngleUpdate, timers>>
  /\ EffectsTsx(Transport, pollStart, pollRunning)

\* the 50 ms or 100 ms timer of a tick fires: getCurrentVelocity() or
\* getCurrentTorque() and the result of its write
FollowUp(ok) ==
  /\ followUps # <<>>
  /\ ok \in serialWrite(portOpen)
  /\ IF ok
     THEN UNCHANGED <<isDeviceResponding, error>>
     ELSE /\ isDeviceResponding' = FALSE
          /\ error' = "Device not responding to " \o Head(followUps) \o " request"
  /\ followUps' = Tail(followUps)
  /\ UNCHANGED <<state, isConnected, isConnecting, lastResponse, lastAngleUpdate, timers>>
  /\ EffectsTsx(Transport, pollStart, pollRunning)

TsxLines == {LineCombined, LineOk, LineVel, LineAngle, LineJunk, LineVelAbc}

NextTsx ==
  \/ \E p \in Ports, o \in OpenOutcomes : ConnectTsx(p, o)
  \/ ConnectReplyTsx
  \/ \E f \in BOOLEAN : Disconnect(f)
  \/ DisconnectReplyTsx
  \/ \E line \in TsxLines : HandleSerialDataTsx(line)
  \/ DeviceResponseTimeoutTsx
  \/ HandleSerialDisconnectedTsx
  \/ PortClosed
  \/ \E b \in BOOLEAN : SetPolling(b)
  \/ StartPolling
  \/ \E ok \in BOOLEAN : PollTickTsx(ok)
  \/ \E ok \in BOOLEAN : FollowUp(ok)

SpecTsx == Init /\ [][NextTsx]_vars

\* handleAutoConnect of the variant: the port list arrived
AutoPortsReplyTsx(outcome) ==
  /\ inbox # <<>> /\ Head(inbox).t = "portsReply"
  /\ LET ports == Head(inbox).ports
         tr == [open |-> portOpen, box |-> Tail(inbox)]
         target == autoConnectTargetTsx(ports)
     IN /\ availablePorts' = ports
        /\ auto' = [pc |-> "idle", ports |-> <<>>, port |-> target]
        /\ IF target = ""
           THEN /\ outcome = "opened"
                /\ error' = autoConnectError(ports)
                /\ UNCHANGED <<state, isConnected, isConnecting, isDeviceResponding,
                               lastResponse, lastAngleUpdate, timers, followUps>>
                /\ RenderTsx(tr, pollStart, pollRunning)
           ELSE /\ isConnecting' = TRUE
                /\ error' = NoError
                /\ isDeviceResponding' = FALSE
                /\ timers' = clearTimeout(timers, "liveness")
                /\ UNCHANGED <<state, isConnected, lastResponse, lastAngleUpdate, followUps>>
                /\ RenderTsx(serialConnect(tr, outcome, "connectReply"),
                             pollStart, pollRunning)

\* the session of the variant with its Auto-connect button
NextAutoTsx ==
  \/ \E f \in BOOLEAN, list \in PortLists : AutoConnect(f, list)
  \/ \E list \in PortLists : AutoAfterDisconnect(list)
  \/ \E o \in OpenOutcomes : AutoPortsReplyTsx(o)
  \/ \E p \in {"COM3", "COM4"}, o \in OpenOutcomes : auto.pc = "idle" /\ ConnectTsx(p, o)
  \/ ConnectReplyTsx
  \/ DisconnectReplyTsx
  \/ HandleSerialDisconnectedTsx

SpecAutoTsx == Init /\ [][NextAutoTsx]_vars

\* sendTFDConfig of this variant: one line, no sticky line
SendTFDConfigTsx(ok) ==
  /\ Len(wire) + Len(inbox) + 1 <= MaxWire
  /\ IF ~isConnected
     THEN /\ ok
          /\ error' = "Not connected to device"
          /\ UNCHANGED <<wire, inbox>>
     ELSE /\ ok \in serialWrite(portOpen)
          /\ wire' = written(wire, ok, formatTFDCommandTsx(config))
          /\ inbox' = Append(inbox, ConfigMsg("configReply", ok, config))
          /\ UNCHANGED error
  /\ UNCHANGED <<state, isConnected, isConnecting, isDeviceResponding,
                 lastResponse, lastAngleUpdate, timers, pollStart, pollRunning,
                 portOpen, isPolling, config, followUps,
                 availablePorts, lastProductId, auto, haptic>>
  /\ UNCHANGED preloadOnly

ConfigReplyTsx ==
  /\ inbox # <<>> /\ Head(inbox).t = "configReply"
  /\ IF Head(inbox).ok
     THEN error' = NoError /\ lastResponse' = "tfd_config"
     ELSE error' = "Failed to send config" /\ UNCHANGED lastResponse
  /\ inbox' = Tail(inbox)
  /\ UNCHANGED <<state, isConnected, isConnecting, isDeviceResponding,
                 lastAngleUpdate, timers, pollStart, pollRunning,
                 portOpen, isPolling, config, wire, followUps,
                 availablePorts, lastProductId, auto, haptic>>
  /\ UNCHANGED preloadOnly

\* the variant with a configuration to send
NextTsxConfig ==
  \/ \E p \in Ports, o \in OpenOutcomes : ConnectTsx(p, o)
  \/ ConnectReplyTsx
  \/ \E f \in BOOLEAN : Disconnect(f)
  \/ DisconnectReplyTsx
  \/ HandleSerialDisconnectedTsx
  \/ PortClosed
  \/ \E ok \in BOOLEAN : SendTFDConfigTsx(ok)
  \/ ConfigReplyTsx

SpecTsxConfig == InitConfig /\ [][NextTsxConfig]_vars

\* ------------------------------------------------- HapticSerialInterface
\* haptic.connected is the isConnected flag of the electronSerial singleton,
\* haptic.callbacks the keys of responseCallbacks, and haptic.calls[id] one
\* sendCommandWithResponse call: the state of its promise (a promise that is
\* settled ignores every later resolve and reject), whether its timeout is
\* armed and whether its serialWrite is in flight.

\* connect(): electronSerial.connect() succeeded
connect ==
  /\ ~haptic.connected
  /\ haptic' = [haptic EXCEPT !.connected = TRUE]
  /\ UNCHANGED <<state, isConnected, isConnecting, isDeviceResponding, error,
                 lastResponse, lastAngleUpdate, reconnectAttempts, isReconnecting,
                 isInGracePeriod, lastPortPath, hasAttemptedReconnect,
                 timers, handlerClosure, rc, pollStart, pollRunning, portOpen,
                 inbox, isPolling, config, wire, followUps,
                 availablePorts, lastProductId, auto>>

\* disconnect(): electronSerial.disconnect() succeeded, then
\* responseCallbacks.clear(); a failure throws before the clear()
disconnect ==
  /\ haptic.connected
  /\ haptic' = [haptic EXCEPT !.connected = FALSE, !.callbacks = {}]
  /\ UNCHANGED <<state, isConnected, isConnecting, isDeviceResponding, error,
                 lastResponse, lastAngleUpdate, reconnectAttempts, isReconnecting,
                 isInGracePeriod, lastPortPath, hasAttemptedReconnect,
                 timers, handlerClosure, rc, pollStart, pollRunning, portOpen,
                 inbox, isPolling, config, wire, followUps,
                 availablePorts, lastProductId, auto>>

\* the serial-disconnected event in electronSerial
onSerialDisconnected ==
  /\ haptic.connected
  /\ haptic' = [haptic EXCEPT !.connected = FALSE]
  /\ UNCHANGED <<state, isConnected, isConnecting, isDeviceResponding, error,
                 lastResponse, lastAngleUpdate, reconnectAttempts, isReconnecting,
                 isInGracePeriod, lastPortPath, hasAttemptedReconnect,
                 timers, handlerClosure, rc, pollStart, pollRunning, portOpen,
                 inbox, isPolling, config, wire, followUps,
                 availablePorts, lastProductId, auto>>

\* the executor of the promise up to its await: the timeout, the callback,
\* and sendCommand(), whose write() throws at once when not connected
sendCommandWithResponse(id) ==
  /\ haptic.calls[id].st = "idle"
  /\ haptic' =
       IF haptic.connected
       THEN [haptic EXCEPT !.callbacks = @ \cup {id},
                           !.calls[id] = [st |-> "pending", value |-> "",
                                          timer |-> TRUE, sending |-> TRUE]]
       ELSE [haptic EXCEPT !.calls[id] = [st |-> "rejected",
                                          value |-> "Not connected to serial port",
                                          timer |-> FALSE, sending |-> FALSE]]
  /\ UNCHANGED <<state, isConnected, isConnecting, isDeviceResponding, error,
                 lastResponse, lastAngleUpdate, reconnectAttempts, isReconnecting,
                 isInGracePeriod, lastPortPath, hasAttemptedReconnect,
                 timers, handlerClosure, rc, pollStart, pollRunning, portOpen,
                 inbox, isPolling, config, wire, followUps,
                 availablePorts, lastProductId, auto>>

\* serialWrite returned to sendCommand(): the catch block on a failure
sendReturned(id, ok) ==
  /\ haptic.calls[id].sending
  /\ haptic' =
       IF ok
       THEN [haptic EXCEPT !.calls[id].sending = FALSE]
       ELSE [haptic EXCEPT !.callbacks = @ \ {id},
                           !.calls[id] =
                             [st |-> IF @.st = "pending" THEN "rejected" ELSE @.st,
                              value |-> IF @.st = "pending" THEN "Write failed"
                                        ELSE @.value,
                              timer |-> FALSE, sending |-> FALSE]]
  /\ UNCHANGED <<state, isConnected, isConnecting, isDeviceResponding, error,
                 lastResponse, lastAngleUpdate, reconnectAttempts, isReconnecting,
                 isInGracePeriod, lastPortPath, hasAttemptedReconnect,
                 timers, handlerClosure, rc, pollStart, pollRunning, portOpen,
                 inbox, isPolling, config, wire, followUps,
                 availablePorts, lastProductId, auto>>

\* the timeout of a call fired
commandTimeout(id) ==
  /\ haptic.calls[id].timer
  /\ haptic' = [haptic EXCEPT !.callbacks = @ \ {id},
                              !.calls[id] =
                                [st |-> IF @.st = "pending" THEN "rejected" ELSE @.st,
                                 value |-> IF @.st = "pending" THEN "Command timeout"
                                           ELSE @.value,
                                 timer |-> FALSE, sending |-> @.sending]]
  /\ UNCHANGED <<state, isConnected, isConnecting, isDeviceResponding, error,
                 lastResponse, lastAngleUpdate, reconnectAttempts, isReconnecting,
                 isInGracePeriod, lastPortPath, hasAttemptedReconnect,
                 timers, handlerClosure, rc, pollStart, pollRunning, portOpen,
                 inbox, isPolling, config, wire, followUps,
                 availablePorts, lastProductId, auto>>

\* the data handler the constructor registers: every callback of the map is
\* called with the line and deleted
onData(data) ==
  /\ haptic' = [haptic EXCEPT
       !.callbacks = {},
       !.calls = [id \in 1..MaxCalls |->
                    IF id \in haptic.callbacks
                    THEN [st |-> IF @[id].st = "pending" THEN "resolved" ELSE @[id].st,
                          value |-> IF @[id].st = "pending" THEN data ELSE @[id].value,
                          timer |-> FALSE, sending |-> @[id].sending]
                    ELSE @[id]]]
  /\ UNCHANGED <<state, isConnected, isConnecting, isDeviceResponding, error,
                 lastResponse, lastAngleUpdate, reconnectAttempts, isReconnecting,
                 isInGracePeriod, lastPortPath, hasAttemptedReconnect,
                 timers, handlerClosure, rc, pollStart, pollRunning, portOpen,
                 inbox, isPolling, config, wire, followUps,
                 availablePorts, lastProductId, auto>>

NextHaptic ==
  \/ connect
  \/ disconnect
  \/ onSerialDisconnected
  \/ \E id \in 1..MaxCalls : sendCommandWithResponse(id)
  \/ \E id \in 1..MaxCalls, ok \in BOOLEAN : sendReturned(id, ok)
  \/ \E id \in 1..MaxCalls : commandTimeout(id)
  \/ \E data \in {"OK", "VEL:2"} : onData(data)

SpecHaptic == Init /\ [][NextHaptic]_vars


\* ===================================================================== claims
\* the user-visible "not responding" conditions
NotRespondingErrors ==
  {"Device stopped responding.",
   "Device not responding after connection",
   "Device not responding to data request",
   "Device not responding after reconnection attempts"}

\* the line shapes of the protocol: <float> is a numeral
FloatTokens == {"1", "2", "3", "12.50", "-3.20", "0.75"}
Keys == {"ANGLE:", "VEL:", "TORQUE:"}
IsCombinedShape(line) ==
  /\ Len(line) = 8
  /\ line[1] = "ANGLE:" /\ line[2] \in FloatTokens /\ line[3] = ","
  /\ line[4] = "VEL:" /\ line[5] \in FloatTokens /\ line[6] = ","
  /\ line[7] = "TORQUE:" /\ line[8] \in FloatTokens
IsSingleShape(line) == Len(line) = 2 /\ line[1] \in Keys /\ line[2] \in FloatTokens
Unrecognized(line) == ~IsCombinedShape(line) /\ ~IsSingleShape(line) /\ line # <<"OK">>

\* C1: while the session is Connected(Responding) the 2000 ms liveness
\* countdown is pending, however Responding was reached, so that 2000 ms
\* without a classified line end in Connected(NotResponding).
C1_RespondingHasCountdown ==
  (isConnected /\ isDeviceResponding) => pending(timers, "liveness")

\* C2 (as stated): the has-attempted flag is cleared only on a fresh
\* successful liveness recovery, so that one reconnect is started per loss.
C2_FlagClearedOnRecoveryOnly ==
  [][(hasAttemptedReconnect /\ ~hasAttemptedReconnect') => isDeviceResponding']_vars

\* a liveness timeout starts reconnect(): the chain leaves idle
RootStart == rc.pc = "idle" /\ rc'.pc = "closing"
\* the probe after a reopen succeeded
ReconnectRecovered == RcProbeReply /\ Head(inbox).ok
\* connect() was called
ConnectCalled == ~isConnecting /\ isConnecting'

\* C2 (amended): a liveness timeout starts reconnect() only while the
\* has-attempted flag is clear, and sets it; the flag is cleared only by a
\* successful probe after a reopen or by a new connect().
C2_OncePerFlag ==
  [][/\ RootStart => (~hasAttemptedReconnect /\ hasAttemptedReconnect')
     /\ (hasAttemptedReconnect /\ ~hasAttemptedReconnect')
          => (ReconnectRecovered \/ ConnectCalled)]_vars

\* a liveness timeout is due while the flag is set
C2_Witness ==
  /\ hasAttemptedReconnect /\ isConnected
  /\ timers # <<>> /\ Head(timers) = "liveness"

\* C3: once three reconnect attempts have failed, the retry chain has
\* stopped: no close, wait or reopen of handleReconnection is in flight.
C3_RetryChainStops ==
  reconnectAttempts >= MaxReconnect => rc.pc \notin {"closing", "backoff", "opening"}

\* C4: no step taken while the grace timer of connect() is pending raises a
\* "not responding" error.
C4_NoErrorInGrace ==
  [][(pending(timers, "grace") /\ pending(timers', "grace") /\ error' # error)
       => error' \notin NotRespondingErrors]_vars

\* C5: the device is marked responding only by a step that handles a
\* classified inbound line; the result of the probe write alone never marks it.
C5_AliveNeedsLine ==
  [][(~isDeviceResponding /\ isDeviceResponding')
       => \E line \in Lines :
            /\ isSensorData(line) \/ isCommandResponse(line)
            /\ HandleSerialData(line)]_vars

\* what a completed disconnect() leaves
Disconnected ==
  ~isConnected /\ ~isDeviceResponding /\ lastResponse = "null" /\ ~lastAngleUpdate

C7_DisconnectCancelsTimers ==
  [][(DisconnectReply /\ Head(inbox).ok)
       => (timers' = <<>> /\ rc'.pc # "backoff" /\ ~pollStart' /\ ~pollRunning')]_vars

\* the session without the transport
session == <<state, isConnected, isConnecting, isDeviceResponding, error,
             lastResponse, lastAngleUpdate, reconnectAttempts, isReconnecting,
             isInGracePeriod, lastPortPath, hasAttemptedReconnect,
             timers, handlerClosure, rc, pollStart, pollRunning>>

\* the state a successful disconnect() leaves
AfterDisconnect == Disconnected /\ error = NoError

C9_ConnectOutcome ==
  [][ConnectReply =>
       IF Head(inbox).ok
       THEN /\ isConnected' /\ ~isDeviceResponding'
            /\ count(timers', "grace") = count(timers, "grace") + 1
       ELSE ~isConnected' /\ ~isDeviceResponding' /\ error' # NoError]_vars

\* C10: a line of none of the recognized shapes changes neither the
\* liveness countdown, nor isDeviceResponding, nor the telemetry.
C10_UnrecognizedIgnored ==
  [][\A line \in Lines :
       (Unrecognized(line) /\ HandleSerialData(line))
         => (timers' = timers /\ isDeviceResponding' = isDeviceResponding /\ state' = state)]_vars

\* a line of one of the shapes that count as classified
Classified(line) == IsCombinedShape(line) \/ IsSingleShape(line) \/ line = <<"OK">>

\* the countdown after a reset: any earlier one cancelled, a new one armed last
Rearmed(q) == setTimeout(clearTimeout(q, "liveness"), "liveness")

\* C11: every classified line (combined, single-field ANGLE:, VEL: or
\* TORQUE:, or the literal OK) restarts the 2000 ms liveness countdown and
\* leaves the device marked responding.
C11_ClassifiedResetsCountdown ==
  [][\A line \in Lines :
       (Classified(line) /\ HandleSerialData(line))
         => (timers' = Rearmed(timers) /\ isDeviceResponding')]_vars
\* a telemetry request of the poller is written
PollerWrites ==
  \/ \E ok \in BOOLEAN : PollTick(ok)
  \/ \E ok \in BOOLEAN : PollTickTsx(ok)
  \/ \E ok \in BOOLEAN : FollowUp(ok)

\* C12: the poller writes a telemetry request (`get all`, `get angle`,
\* `get vel`, `get torque`), a delayed follow-up of an earlier tick included,
\* only while the session is connected and polling is enabled.
C12_PollerStopsAtOnce ==
  [][PollerWrites => (isConnected /\ isPolling)]_vars
\* the `:.1f` of the encoding table: the tenth nearest to the double, the even
\* one if both are as near (only hundredths ending in 25 or 75 are such doubles)
OneDecimal(x) ==
  LET a == IF x < 0 THEN -x ELSE x
      tie == a % 25 = 0 /\ a % 10 = 5
      up == \/ a % 10 > 5
            \/ a % 10 = 5 /\ ~tie /\ a \notin DoubleBelow
            \/ tie /\ (a \div 10) % 2 = 1
      n == (a \div 10) + (IF up THEN 1 ELSE 0)
      digits == ToDecimal(n \div 10) \o "." \o Digit(n % 10)
  IN IF x < 0 THEN "-" \o digits ELSE digits

\* the encoding table, mode -> line
TableLine(c) ==
  CASE c.mode = "none" -> "set normal\n"
    [] c.mode = "soft-detents" -> "set detent:ultra\n"
    [] c.mode = "medium-detents" -> "set detent:fine\n"
    [] c.mode = "rough-detents" -> "set detent:coarse\n"
    [] c.mode = "clockwise" -> "set cw\n"
    [] c.mode = "counterclockwise" -> "set ccw\n"
    [] c.mode = "increased-torque" -> "set constant:" \o OneDecimal(c.torque) \o "\n"
    [] c.mode = "lock" -> "set constant:1.0\n"
    [] c.mode = "center-detent" -> "set detent:center\n"
    [] c.mode = "proportional-control" ->
         "set proportional:" \o OneDecimal(c.targetAngle) \o "," \o OneDecimal(c.stiffness) \o "\n"
    [] c.mode = "inertial-control" -> "set inertial:" \o OneDecimal(c.stiffness) \o "\n"
    [] c.mode = "latch" -> "set latch\n"
    [] c.mode = "endstops" /\ c.endstopMode = "none" ->
         "set endstops:" \o OneDecimal(c.endstopTurns) \o "\n"
    [] c.mode = "endstops" /\ c.endstopMode = "proportional" ->
         "set endstops-proportional:" \o OneDecimal(c.endstopTurns) \o "\n"
    [] c.mode = "endstops" /\ c.endstopMode = "soft" ->
         "set endstops-ultra:" \o OneDecimal(c.endstopTurns) \o "\n"
    [] c.mode = "endstops" /\ c.endstopMode = "medium" ->
         "set endstops-fine:" \o OneDecimal(c.endstopTurns) \o "\n"
    [] c.mode = "endstops" /\ c.endstopMode = "rough" ->
         "set endstops-coarse:" \o OneDecimal(c.endstopTurns) \o "\n"
    [] c.mode = "endstops" /\ c.endstopMode = "center" ->
         "set endstops-center:" \o OneDecimal(c.endstopTurns) \o "\n"

\* the sticky line after an endstops send
StickyLine(c) == IF c.isSticky THEN "set sticky:on\n" ELSE "set sticky:off\n"

EndstopsLines == {TableLine(c) : c \in {d \in Configs : d.mode = "endstops"}}
StickyLines == {"set sticky:on\n", "set sticky:off\n"}

\* C13: sendTFDConfig with mode = endstops writes the primary endstops line
\* of the table for endstopMode and endstopTurns first, then, when that write
\* has returned, `set sticky:on` or `set sticky:off` as isSticky says, and no
\* third line; a sticky line on the wire always has an endstops line before it.
C13_EndstopsTwoLines ==
  [][/\ \A ok \in BOOLEAN :
          (SendTFDConfig(ok) /\ isConnected /\ portOpen /\ ok /\ config.mode = "endstops")
            => wire' = Append(wire, TableLine(config))
     /\ \A ok \in BOOLEAN :
          (ConfigReply(ok) /\ Head(inbox).ok /\ Head(inbox).cfg.mode = "endstops" /\ portOpen /\ ok)
            => (wire' = Append(wire, StickyLine(Head(inbox).cfg)) /\ lastResponse' = lastResponse)
     /\ StickyReply
          => (wire' = wire /\ (Head(inbox).ok => lastResponse' = "tfd_config"))
     /\ \A i \in 1..Len(wire') :
          wire'[i] \in StickyLines => \E j \in 1..(i - 1) : wire'[j] \in EndstopsLines]_vars

\* the example: 2.0 turns, soft, sticky, sent and completed
C13_Witness ==
  /\ config.mode = "endstops" /\ config.endstopMode = "soft"
  /\ config.endstopTurns = 200 /\ config.isSticky
  /\ wire = <<"set endstops-ultra:2.0\n", "set sticky:on\n">>
  /\ lastResponse = "tfd_config" /\ inbox = <<>>
\* C14: for every configuration whose mode is one of the 13 modes (with any
\* of the 6 endstop modes), the line sendTFDConfig writes first is the line
\* of the encoding table, in either copy of the encoder.
C14_EncoderMatchesTable ==
  [][/\ \A ok \in BOOLEAN :
          (SendTFDConfig(ok) /\ isConnected /\ portOpen /\ ok /\ config.mode \in Modes)
            => wire' = Append(wire, TableLine(config))
     /\ \A ok \in BOOLEAN :
          (SendTFDConfigTsx(ok) /\ isConnected /\ portOpen /\ ok /\ config.mode \in Modes)
            => wire' = Append(wire, TableLine(config))]_vars
\* C15: sendTFDConfig with a mode outside the 13 modes fails with an error
\* and hands no line to the transport.
C15_UnknownModeFails ==
  [][\A ok \in BOOLEAN :
       /\ (SendTFDConfig(ok) /\ isConnected /\ config.mode \notin Modes)
            => wire' = wire
       /\ (ConfigReply(ok) /\ Head(inbox).cfg.mode \notin Modes)
            => (wire' = wire /\ error' # NoError)]_vars
\* the number a numeral of the protocol denotes, as its shortest numeral
FloatValue(tok) ==
  CASE tok = "12.50" -> "12.5"
    [] tok = "-3.20" -> "-3.2"
    [] tok \in {"1", "2", "3", "0.75"} -> tok

\* the telemetry field a key names
Field(key) ==
  CASE key = "ANGLE:" -> "currentAngle"
    [] key = "VEL:" -> "currentVelocity"
    [] key = "TORQUE:" -> "currentTorque"

\* the text that follows the first occurrence of a key in a line
FieldToken(line, key) ==
  LET k == CHOOSE i \in 1..Len(line) : line[i] = key /\ \A j \in 1..(i - 1) : line[j] # key
  IN IF k < Len(line) THEN line[k + 1] ELSE ""

\* C16: a single-field line `ANGLE:<n>`, `VEL:<n>` or `TORQUE:<n>` sets
\* that one telemetry field to n and leaves the other two as they were.
C16_SingleFieldMerged ==
  [][\A line \in DecoderLines :
       (IsSingleShape(line) /\ (HandleSerialData(line) \/ HandleSerialDataTsx(line)))
         => state' = [state EXCEPT ![Field(line[1])] = FloatValue(line[2])]]_vars

\* C17: a combined line `ANGLE:<a>,VEL:<v>,TORQUE:<t>` with three numerals
\* sets angle, velocity and torque to the numbers a, v and t.
C17_CombinedDecoded ==
  [][\A line \in DecoderLines :
       (IsCombinedShape(line) /\ HandleSerialData(line))
         => state' = [currentAngle |-> FloatValue(line[2]),
                      currentVelocity |-> FloatValue(line[5]),
                      currentTorque |-> FloatValue(line[8])]]_vars

\* the example `ANGLE:12.50,VEL:-3.20,TORQUE:0.75` has been decoded
C17_Witness ==
  /\ state = [currentAngle |-> "12.5", currentVelocity |-> "-3.2", currentTorque |-> "0.75"]
  /\ lastResponse = "received" /\ lastAngleUpdate

\* C18: the line `OK` restarts the liveness countdown, marks the device
\* responding and leaves angle, velocity and torque as they were.
C18_OkIsHeartbeat ==
  [][HandleSerialData(LineOk)
       => (timers' = Rearmed(timers) /\ isDeviceResponding' /\ state' = state)]_vars

\* a line without telemetry was the first to mark the session responding:
\* the countdown runs, the grace timer is still pending, no angle was decoded
C18_Witness ==
  /\ isConnected /\ isDeviceResponding /\ lastResponse = "received"
  /\ timers = <<"grace", "liveness">>
  /\ ~lastAngleUpdate
  /\ state = [currentAngle |-> "0", currentVelocity |-> "0", currentTorque |-> "0"]

\* C19: a field whose key is in the line but whose value is not a numeral
\* keeps its previous value, and no telemetry field ever becomes NaN.
C19_NonNumericAbsent ==
  [][\A line \in DecoderLines :
       (HandleSerialData(line) \/ HandleSerialDataTsx(line))
         => /\ \A key \in Keys :
                 (includes(line, key) /\ FieldToken(line, key) \notin FloatTokens)
                   => state'[Field(key)] = state[Field(key)]
            /\ \A f \in DOMAIN state' : state'[f] # NaN]_vars

\* C20: the malformed line `ANGLE:1VEL:2TORQUE:3` (no commas) is handled as
\* an unrecognized line: no telemetry update, no liveness reset, no change of
\* the phase.
C20_MalformedIsUnrecognized ==
  [][HandleSerialData(LineNoComma)
       => /\ state' = state
          /\ timers' = timers
          /\ isDeviceResponding' = isDeviceResponding
          /\ isConnected' = isConnected /\ isConnecting' = isConnecting]_vars
\* C21: in every state endstopMinAngle = -180 * endstopTurns and
\* endstopMaxAngle = 180 * endstopTurns (angles and turns in hundredths),
\* initially and after every update of the configuration, also one that
\* does not carry endstopTurns.
C21_EndstopAngles ==
  /\ config.endstopMinAngle = -180 * config.endstopTurns
  /\ config.endstopMaxAngle = 180 * config.endstopTurns

\* the turns were changed to 2.5 and two other endstop controls used after it
C21_Witness ==
  /\ config.endstopTurns = 250
  /\ config.endstopMinAngle = -45000 /\ config.endstopMaxAngle = 45000
  /\ config.endstopMode = "soft" /\ config.isSticky
\* C22: reconnect() closes the transport, waits 1000 ms, reopens with the
\* port of the last connect() and then arms a fresh 2000 ms grace period,
\* in this order, and never changes the stored port.
C22_ReconnectSteps ==
  [][LET RcOrder ==
           {<<"idle", "closing">>, <<"closing", "backoff">>, <<"backoff", "opening">>,
            <<"opening", "grace">>, <<"opening", "closing">>, <<"opening", "idle">>,
            <<"grace", "probing">>, <<"probing", "closing">>, <<"probing", "idle">>}
         RcStep ==
           \/ DeviceResponseTimeout
           \/ RcCloseReply
           \/ \E o \in OpenOutcomes : RcBackoffTimeout(o)
           \/ RcOpenReply
           \/ \E ok \in BOOLEAN : RcGraceTimeout(ok)
           \/ RcProbeReply
     IN
     /\ rc'.pc # rc.pc => <<rc.pc, rc'.pc>> \in RcOrder
     /\ (rc'.pc = "closing" /\ rc' # rc)
          => (~portOpen' /\ inbox' # <<>> /\ inbox'[Len(inbox')].t = "rcCloseReply")
     /\ (rc.pc = "backoff" /\ rc'.pc = "opening")
          => (inbox'[Len(inbox')].t = "rcOpenReply" /\ rc.port = lastPortPath)
     /\ (rc.pc = "opening" /\ rc'.pc = "grace")
          => (isInGracePeriod' /\ timers' # <<>> /\ timers'[Len(timers')] = "rcGrace")
     /\ RcStep => lastPortPath' = lastPortPath]_vars

\* C23: the close of the transport that reconnect() starts with does not
\* move the session to Disconnected, and when the attempts are exhausted the
\* session is Connected, not responding, with the terminal error.
C23_ReconnectKeepsConnected ==
  [][/\ (HandleSerialDisconnected /\ rc.pc = "closing") => isConnected' = isConnected
     /\ ((RcOpenReply \/ RcProbeReply) /\ error' # error
          /\ error' \in {"Failed to reconnect after multiple attempts",
                         "Device not responding after reconnection attempts"})
          => (isConnected' /\ ~isDeviceResponding')]_vars

\* C24: a failed probe at the end of the grace period of connect() leaves
\* the session connected and not responding with an error, and starts no
\* reconnect(); a reconnect() starts only in a step that takes the session
\* from responding to not responding.
C24_ProbeFailureNoReconnect ==
  [][/\ (ProbeReply /\ ~Head(inbox).ok)
          => /\ isConnected' = isConnected
             /\ ~isDeviceResponding'
             /\ error' = "Device not responding after connection"
             /\ rc' = rc /\ isReconnecting' = isReconnecting
     /\ (rc.pc = "idle" /\ rc'.pc = "closing") => (isDeviceResponding /\ ~isDeviceResponding')]_vars

\* C25: a write of sendTFDConfig, reset or calibrate that fails puts no
\* line on the wire; when its failure is handled the error is set and no
\* further write is made: no sticky line after a failed endstops line, and
\* no second write of the failed line.
C25_WriteFailureAborts ==
  [][/\ ((SendTFDConfig(FALSE) \/ Reset(FALSE) \/ Calibrate(FALSE)) /\ isConnected)
          => wire' = wire
     /\ (/\ \/ \E ok \in BOOLEAN : ConfigReply(ok)
             \/ StickyReply
             \/ ResetReply
             \/ CalibrateReply
         /\ ~Head(inbox).ok)
          => /\ error' \in {"Failed to send config", "Failed to set sticky mode",
                            "Failed to reset device", "Failed to calibrate device"}
             /\ wire' = wire
             /\ inbox' = Tail(inbox)
             /\ lastResponse' = lastResponse]_vars

\* the endstops line of a connected session failed: the error is shown,
\* nothing is on the wire, no reply is owed
C25_Witness ==
  /\ isConnected /\ portOpen /\ config.mode = "endstops"
  /\ error = "Failed to send config"
  /\ wire = <<>> /\ inbox = <<>>

\* C26: autoConnect calls connect only on a listed port exposing an identifier
\* equal to the persisted last-connected identifier; when no listed port has
\* an identifier or none matches, no connect is attempted and the session is
\* left as it was for a manual choice.
C26_AutoConnectPreferred ==
  [][ (/\ inbox # <<>>
       /\ Head(inbox).t = "portsReply"
       /\ auto.pc = "listing" /\ auto'.pc = "idle")
      => LET ports == Head(inbox).ports
             pref == {i \in 1..Len(ports) :
                        /\ ports[i].productId # NoProductId
                        /\ ports[i].productId = getLastProductId(lastProductId)}
         IN /\ (isConnecting' /\ ~isConnecting)
                 => \E i \in pref : ports[i].path = auto'.port
            /\ pref = {}
                 => /\ isConnecting' = isConnecting
                    /\ isConnected' = isConnected
                    /\ portOpen' = portOpen
                    /\ auto'.port = "" ]_vars

\* C27: the numeric parameters of an emitted line have one digit after the
\* point, rounded half up at every call site: torque 0.35 in mode
\* increased-torque is emitted as `set constant:0.4\n`.
C27_RoundHalfUp ==
  [][LET HalfUp(x) ==
           LET a == IF x < 0 THEN -x ELSE x
               n == (a + 5) \div 10
               digits == ToDecimal(n \div 10) \o "." \o Digit(n % 10)
           IN IF x < 0 THEN "-" \o digits ELSE digits
     IN (SendTFDConfig(TRUE) /\ isConnected /\ portOpen)
          => /\ config.mode = "increased-torque"
                  => wire' = Append(wire, "set constant:" \o HalfUp(config.torque) \o "\n")
             /\ config.mode = "inertial-control"
                  => wire' = Append(wire, "set inertial:" \o HalfUp(config.stiffness) \o "\n")
             /\ config.mode = "proportional-control"
                  => wire' = Append(wire, "set proportional:" \o HalfUp(config.targetAngle)
                                            \o "," \o HalfUp(config.stiffness) \o "\n")
             /\ (config.mode = "endstops" /\ config.endstopMode = "none")
                  => wire' = Append(wire, "set endstops:" \o HalfUp(config.endstopTurns) \o "\n")
             /\ (config.mode = "increased-torque" /\ config.torque = 35)
                  => wire' = Append(wire, "set constant:0.4\n")]_vars

\* C28: reconnectAttempts stays between 0 and 3, and a reopen of the
\* transport is attempted only while fewer than 3 attempts are counted since
\* the responsiveness was lost, so at most 3 reopens are made for one loss,
\* also when every reopen fails.
C28_AtMostThreeReopens ==
  [][/\ reconnectAttempts' \in 0..MaxReconnect
     /\ (\E o \in OpenOutcomes : RcBackoffTimeout(o))
          => reconnectAttempts < MaxReconnect]_vars

\* C29: at most one connect() or reconnect() is in flight: at most one open
\* of the transport is unresolved, connect() starts none while a reconnect
\* is closing, waiting or reopening, and a reconnect reopens none while a
\* connect() is unresolved.
C29_OneOpenInFlight ==
  [][LET opens(box) ==
           Len(SelectSeq(box, LAMBDA m : m.t \in {"connectReply", "rcOpenReply"}))
     IN /\ opens(inbox') <= 1
        /\ (isConnecting' /\ ~isConnecting)
             => (rc.pc = "idle" /\ opens(inbox) = 0)
        /\ (rc.pc = "backoff" /\ rc'.pc = "opening")
             => (~isConnecting /\ opens(inbox) = 0)]_vars

\* C30: at most one timer of each kind is pending: never two grace-period
\* timers (of connect() or of a reconnect) and never two liveness countdowns.
C30_OneTimerPerKind ==
  /\ count(timers, "grace") + count(timers, "rcGrace") <= 1
  /\ count(timers, "liveness") <= 1

\* C31: at most one write to the transport is outstanding at any time, and
\* nothing else is written between the primary endstops line and its sticky
\* follow-up.
C31_WritesSerialized ==
  [][LET writes(box) ==
           Len(SelectSeq(box, LAMBDA m : m.t \in {"configReply", "stickyReply",
                                                   "resetReply", "calibrateReply",
                                                   "probeReply", "rcProbeReply"}))
         stickyOwed ==
           \E i \in 1..Len(inbox) : /\ inbox[i].t = "configReply"
                                    /\ inbox[i].ok
                                    /\ inbox[i].cfg.mode = "endstops"
     IN /\ writes(inbox') <= 1
        /\ stickyOwed => ~(\E ok \in BOOLEAN : GraceTimeout(ok) \/ PollTick(ok))]_vars

\* C34: a change of a wire-relevant field of the configuration in a connected
\* session is followed by lines that encode the new configuration: when the
\* writes of the change succeed, the last line written is the encoding of
\* the new configuration (the sticky line for a change of isSticky).
C34_ConfigChangeSent ==
  [][LET sent == SubSeq(inbox', Len(inbox) + 1, Len(inbox'))
     IN /\ (StickyToggle(TRUE) /\ isConnected /\ portOpen)
             => wire' = Append(wire, stickyCommand(config'))
        /\ (/\ config' # config
            /\ config'.isSticky = config.isSticky
            /\ isConnected /\ portOpen
            /\ \A i \in 1..Len(sent) : sent[i].ok)
             => /\ wire' # wire
                /\ wire'[Len(wire')] = formatTFDCommand(config')]_vars

\* C33: device-responding implies connected: isDeviceResponding is never
\* true while the session is disconnected.
C33_RespondingImpliesConnected == isDeviceResponding => isConnected

\* C32: the phases follow the state machine: a reconnect is started and
\* Connected(NotResponding) is entered from Responding only in a connected
\* session that is not connecting; Connecting resolves to Connected or
\* Disconnected with no reconnect in flight; Responding is entered only in
\* a connected session, never from Disconnected.
C32_PhasesInOrder ==
  [][/\ (rc.pc = "idle" /\ rc'.pc # "idle") => (isConnected /\ ~isConnecting)
     /\ (isDeviceResponding /\ ~isDeviceResponding' /\ isConnected')
          => (isConnected /\ ~isConnecting)
     /\ (isConnecting /\ ~isConnecting') => (rc.pc = "idle" /\ rc'.pc = "idle")
     /\ (~isDeviceResponding /\ isDeviceResponding') => isConnected]_vars

C36_StoredOnSuccessOnly ==
  [][lastProductId' # lastProductId
       => (inbox # <<>> /\ Head(inbox).t = "connectReply" /\ Head(inbox).ok)]_vars

\* C37: in a session that is not connected, applyConfig, requestAngle,
\* requestVelocity, reset and calibrate write nothing and only set the
\* error 'Not connected to device'; phase, configuration and telemetry are
\* unchanged.
C37_NotConnectedNoWrite ==
  [][(/\ ~isConnected
      /\ \/ SendTFDConfig(TRUE) \/ Reset(TRUE) \/ Calibrate(TRUE)
         \/ requestCurrent("get all\n", "Device not responding to data request", TRUE)
         \/ requestCurrent("get vel\n", "Device not responding to velocity request", TRUE))
       => /\ error' = "Not connected to device"
          /\ UNCHANGED <<wire, inbox, portOpen, isConnected, isConnecting,
                         isDeviceResponding, isReconnecting, rc, config, state,
                         lastResponse, lastAngleUpdate, timers>>]_vars

\* a command was refused in a session that is not connected after a
\* connect() had been tried
C37_Witness ==
  /\ ~isConnected /\ ~isConnecting /\ ~portOpen
  /\ lastPortPath # ""
  /\ error = "Not connected to device"
  /\ wire = <<>> /\ inbox = <<>>

\* C38: the unsolicited-disconnect event of the transport, in any state,
\* leaves the session disconnected and not responding with the error
\* 'Device disconnected', with no liveness countdown pending and with the
\* poller stopped.
C38_DisconnectEvent ==
  [][HandleSerialDisconnected
       => /\ ~isConnected' /\ ~isDeviceResponding'
          /\ error' = "Device disconnected"
          /\ count(timers', "liveness") = 0
          /\ ~pollRunning' /\ ~pollStart']_vars

\* the port of a responding, polling session closed under it: the event was
\* handled while the liveness countdown was pending
C38_Witness ==
  /\ ~isConnected /\ ~isDeviceResponding /\ ~portOpen
  /\ error = "Device disconnected"
  /\ lastResponse = "received"
  /\ rc.pc = "idle" /\ timers = <<>> /\ inbox = <<>>

\* C39: serial-connect reports success only if the requested port was
\* opened, and serial-write reports success only if the data was written
\* to an open port.
C39_SuccessMeansDone ==
  [][(Len(inbox') > Len(inbox) /\ inbox'[Len(inbox')].ok)
       => LET reply == inbox'[Len(inbox')]
          IN /\ reply.t \in {"connectReply", "rcOpenReply"} => portOpen'
             /\ reply.t \in {"probeReply", "rcProbeReply"} => portOpen]_vars

\* C40: every sendCommandWithResponse call settles once: a settled call
\* keeps its outcome (a line after the timeout does not resolve it) and has
\* no entry in responseCallbacks, a rejection is the timeout or the send
\* error, and a line that arrives at a connected interface while the call
\* is pending resolves the call with that line.
C40_SettlesOnce ==
  [][\A id \in 1..MaxCalls :
       LET call == haptic.calls[id]
           after == haptic'.calls[id]
           settled(c) == c.st \in {"resolved", "rejected"}
       IN /\ settled(call) => after = [call EXCEPT !.timer = after.timer,
                                                   !.sending = after.sending]
          /\ settled(after) => id \notin haptic'.callbacks /\ ~after.timer
          /\ after.st = "rejected" =>
               after.value \in {"Command timeout", "Write failed",
                                "Not connected to serial port"}
          /\ \A data \in {"OK", "VEL:2"} :
               call.st = "pending" /\ haptic.connected /\ onData(data)
                 => after.st = "resolved" /\ after.value = data]_vars

====
